---- MODULE Spec2Model ----
(***************************************************************************)
(* State-machine model of the examquiz application (src/quiz): the         *)
(* relational rows the quiz flow reads and writes, the quiz-session        *)
(* handlers of the web views and of the REST viewset, answer evaluation,   *)
(* score calculation, the session timer and the spreadsheet importer.      *)
(*                                                                         *)
(* Time is counted in ticks of 1/TicksPerSec second, so that the           *)
(* truncations int(...) of the code are visible.  Every handler is one     *)
(* atomic action (one request against the database).                       *)
(***************************************************************************)
EXTENDS Integers, Sequences, FiniteSets, TLC

\* ------------------------------------------------------------------------
\* Bounds of the model
\* ------------------------------------------------------------------------
TicksPerSec == 2
MaxSessions == 2
TimerSlack == 2
MaxBalance == 2
MaxChoices == 2

\* ------------------------------------------------------------------------
\* Program constants
\* ------------------------------------------------------------------------
SecondsPerMinute == 60
PassBonus == 50
SignupTokens == 100
DailyTokens == 10
TokensPerAiRequest == 1
SecondsPerDay == 86400

Users == {"alice", "bob"}
\* a null column: ids and instants are never negative
None == 0 - 1

\* ------------------------------------------------------------------------
\* Small helpers
\* ------------------------------------------------------------------------
Max(a, b) == IF a >= b THEN a ELSE b

RECURSIVE GCD(_, _)
GCD(a, b) == IF b = 0 THEN a ELSE GCD(b, a % b)

\* int(x) of a non-negative duration given in ticks: whole seconds
IntSeconds(ticks) == ticks \div TicksPerSec

\* ------------------------------------------------------------------------
\* Text: a string is the sequence of its characters
\* ------------------------------------------------------------------------
Upper == <<"A","B","C","D","E","F","G","H","I","J","K","L","M",
           "N","O","P","Q","R","S","T","U","V","W","X","Y","Z">>
LowerCase == <<"a","b","c","d","e","f","g","h","i","j","k","l","m",
               "n","o","p","q","r","s","t","u","v","w","x","y","z">>
Digits == <<"0","1","2","3","4","5","6","7","8","9">>

\* str.lower
LowerChar(c) ==
    IF \E i \in DOMAIN Upper : Upper[i] = c
    THEN LowerCase[CHOOSE i \in DOMAIN Upper : Upper[i] = c]
    ELSE c
Lower(s) == [i \in 1..Len(s) |-> LowerChar(s[i])]

\* str.strip
RECURSIVE LStrip(_)
LStrip(s) == IF s # <<>> /\ Head(s) = " " THEN LStrip(Tail(s)) ELSE s
RECURSIVE RStrip(_)
RStrip(s) == IF s # <<>> /\ s[Len(s)] = " " THEN RStrip(SubSeq(s, 1, Len(s) - 1)) ELSE s
Strip(s) == RStrip(LStrip(s))

NotBracket(c) == c \notin {"[", "]"}

\* Command.remove_all_brackets
RemoveAllBrackets(text) == SelectSeq(text, NotBracket)

\* needle in hay
Contains(hay, needle) ==
    \E i \in 0..(Len(hay) - Len(needle)) : SubSeq(hay, i + 1, i + Len(needle)) = needle

\* str.split(sep) for a one-character separator: empty pieces are kept
RECURSIVE SplitFrom(_, _, _)
SplitFrom(s, sep, piece) ==
    IF s = <<>> THEN <<piece>>
    ELSE IF Head(s) = sep THEN <<piece>> \o SplitFrom(Tail(s), sep, <<>>)
    ELSE SplitFrom(Tail(s), sep, Append(piece, Head(s)))
Split(s, sep) == SplitFrom(s, sep, <<>>)

RECURSIVE DigitsValue(_, _)
DigitsValue(s, acc) ==
    IF s = <<>> THEN acc ELSE DigitsValue(Tail(s), acc * 10 + (CHOOSE i \in DOMAIN Digits : Digits[i] = Head(s)) - 1)

\* int(text): [ok |-> FALSE] stands for ValueError
ParseInt(text) ==
    LET t == Strip(text)
        signed == t # <<>> /\ Head(t) \in {"+", "-"}
        body == IF signed THEN Tail(t) ELSE t
    IN  IF body # <<>> /\ \A i \in DOMAIN body : \E d \in DOMAIN Digits : Digits[d] = body[i]
        THEN [ok |-> TRUE,
              val |-> IF signed /\ Head(t) = "-" THEN 0 - DigitsValue(body, 0)
                      ELSE DigitsValue(body, 0)]
        ELSE [ok |-> FALSE, val |-> 0]

\* str(n) of an integer
RECURSIVE NatToStr(_)
NatToStr(n) ==
    IF n < 10 THEN <<Digits[n + 1]>> ELSE Append(NatToStr(n \div 10), Digits[(n % 10) + 1])
IntToStr(n) == IF n < 0 THEN <<"-">> \o NatToStr(0 - n) ELSE NatToStr(n)

VARIABLES
    now,        \* timezone.now(), in ticks
    categories, \* Category rows, by id
    exams,      \* Exam rows, by id
    topics,     \* Topic rows, by id
    questions,  \* Question rows, by id
    choices,    \* Choice rows, by id
    sessions,   \* QuizSession rows, by id
    answers,    \* UserAnswer rows (with their selected_choices), by id
    profiles,   \* UserProfile rows, by user
    seq,        \* the database's id sequences
    files,      \* the inbox, processed and failed folders
    response,   \* the response of the last request
    ai_calls,   \* the ai_assistant requests waiting for the external call, by request
    importers,  \* the running import_questions_csv invocations, by invocation
    bookmarks   \* BookmarkedQuestion rows, as pairs <<user, question>>

vars == <<now, categories, exams, topics, questions, choices, sessions, answers,
          profiles, seq, files, response, ai_calls, importers, bookmarks>>

\* ------------------------------------------------------------------------
\* Rows and queries
\* ------------------------------------------------------------------------
SessionIds == DOMAIN sessions
AnswerIds == DOMAIN answers
QuestionIds == DOMAIN questions
ChoiceIds == DOMAIN choices
ExamIds == DOMAIN exams

\* f with the row k added or replaced
Put(f, k, row) == [x \in (DOMAIN f) \cup {k} |-> IF x = k THEN row ELSE f[x]]

\* f without the rows of D
Drop(f, D) == [x \in (DOMAIN f) \ D |-> f[x]]

\* exam.questions.filter(is_active=True)
ActiveQuestions(e) ==
    {q \in QuestionIds : questions[q].exam = e /\ questions[q].is_active}

\* question.choices.all()
ChoicesOf(q) == {c \in ChoiceIds : choices[c].question = q}

\* Question.get_correct_choices
GetCorrectChoices(q) == {c \in ChoicesOf(q) : choices[c].is_correct}

\* session.user_answers.filter(is_correct=True)
CorrectAnswersOf(s) ==
    {a \in AnswerIds : answers[a].quiz_session = s /\ answers[a].is_correct}

\* UserAnswer.objects.filter(quiz_session=s, question=q)
AnswersFor(s, q) ==
    {a \in AnswerIds : answers[a].quiz_session = s /\ answers[a].question = q}

\* The float (correct / total) * 100, kept exactly as the reduced fraction
\* <<numerator, denominator>>; total > 0.
ScoreValue(correct, total) ==
    LET g == GCD(correct * 100, total)
    IN  <<(correct * 100) \div g, total \div g>>

ZeroScore == <<0, 1>>

\* score >= n for an integer n
ScoreAtLeast(score, n) == score[1] >= n * score[2]

\* QuizSession(user=u, exam=e) as QuizSession.objects.create stores it
NewSession(u, e) ==
    [user |-> u, exam |-> e, started_at |-> now, completed_at |-> None,
     is_completed |-> FALSE, score |-> ZeroScore, total_questions |-> 0,
     correct_answers |-> 0, time_taken_seconds |-> None,
     tokens_granted |-> FALSE, is_paused |-> FALSE, paused_at |-> None,
     total_paused_seconds |-> 0]

\* ------------------------------------------------------------------------
\* QuizSession methods: each maps the row (of session s) to the saved row
\* ------------------------------------------------------------------------
CalculateScore(s, row) ==
    LET total == Cardinality(ActiveQuestions(row.exam))
        correct == Cardinality(CorrectAnswersOf(s))
    IN  IF total = 0 THEN row
        ELSE [row EXCEPT !.correct_answers = correct,
                         !.total_questions = total,
                         !.score = ScoreValue(correct, total)]

CompleteQuiz(s, row) ==
    CalculateScore(s, [row EXCEPT !.is_completed = TRUE,
                                  !.completed_at = now,
                                  !.time_taken_seconds = IntSeconds(now - row.started_at)])

\* pause_quiz and resume_quiz return <<saved row, success>>
PauseQuizRowWithoutInstant(row) ==
    IF ~row.is_paused /\ ~row.is_completed
    THEN <<[row EXCEPT !.is_paused = TRUE], TRUE>>
    ELSE <<row, FALSE>>

PauseQuizRow(row) ==
    IF ~row.is_paused /\ ~row.is_completed
    THEN <<[row EXCEPT !.is_paused = TRUE, !.paused_at = now], TRUE>>
    ELSE <<row, FALSE>>

ResumeQuizRowForgetsPause(row) ==
    IF row.is_paused /\ ~row.is_completed
    THEN <<[row EXCEPT !.is_paused = FALSE, !.paused_at = None], TRUE>>
    ELSE <<row, FALSE>>

ResumeQuizRow(row) ==
    IF row.is_paused /\ ~row.is_completed
    THEN <<[row EXCEPT !.total_paused_seconds =
                          IF row.paused_at # None
                          THEN @ + IntSeconds(now - row.paused_at) ELSE @,
                       !.is_paused = FALSE,
                       !.paused_at = None], TRUE>>
    ELSE <<row, FALSE>>

RemainingAtIgnoresPauseInProgress(row, t) ==
    IF row.is_completed THEN 0
    ELSE LET duration == exams[row.exam].duration_minutes * SecondsPerMinute * TicksPerSec
             elapsed == t - row.started_at
             actual == elapsed - row.total_paused_seconds * TicksPerSec
         IN  IntSeconds(Max(0, duration - actual))

RemainingAtCountsPauseTwice(row, t) ==
    IF row.is_completed THEN 0
    ELSE LET duration == exams[row.exam].duration_minutes * SecondsPerMinute * TicksPerSec
             elapsed == t - row.started_at
             pause == IF row.is_paused /\ row.paused_at # None
                      THEN 2 * (t - row.paused_at) ELSE 0
             actual == elapsed - row.total_paused_seconds * TicksPerSec - pause
         IN  IntSeconds(Max(0, duration - actual))

\* get_remaining_time at the instant t (in ticks); the result is in seconds
RemainingAt(row, t) ==
    IF row.is_completed THEN 0
    ELSE LET duration == exams[row.exam].duration_minutes * SecondsPerMinute * TicksPerSec
             elapsed == t - row.started_at
             pause == IF row.is_paused /\ row.paused_at # None
                      THEN t - row.paused_at ELSE 0
             actual == elapsed - row.total_paused_seconds * TicksPerSec - pause
         IN  IntSeconds(Max(0, duration - actual))

GetRemainingTime(row) == RemainingAt(row, now)

\* UserAnswer.check_answer: the new is_correct of an answer to question q
\* with the given selected choices (was: the value before the call)
CheckAnswerSubset(q, selected, was) ==
    LET correct == GetCorrectChoices(q)
        type == questions[q].question_type
    IN  CASE type = "single" -> Cardinality(selected) = 1 /\ selected = correct
          [] type = "multiple" -> selected \subseteq correct
          [] type = "true_false" -> Cardinality(selected) = 1 /\ selected = correct
          [] OTHER -> was

CheckAnswerAnyCorrect(q, selected, was) ==
    LET correct == GetCorrectChoices(q)
        type == questions[q].question_type
    IN  CASE type = "single" -> selected \subseteq correct
          [] type = "multiple" -> selected = correct
          [] type = "true_false" -> selected \subseteq correct
          [] OTHER -> was

CheckAnswer(q, selected, was) ==
    LET correct == GetCorrectChoices(q)
        type == questions[q].question_type
    IN  CASE type = "single" -> Cardinality(selected) = 1 /\ selected = correct
          [] type = "multiple" -> selected = correct
          [] type = "true_false" -> Cardinality(selected) = 1 /\ selected = correct
          [] OTHER -> was

\* ------------------------------------------------------------------------
\* Requests and responses
\* ------------------------------------------------------------------------
Methods == {"GET", "POST"}

Reply(op, u, status, s, to) ==
    [op |-> op, user |-> u, status |-> status, session |-> s, to |-> to]

\* get_object_or_404(QuizSession, id=s, user=u) finds a row
Owns(u, s) == s \in SessionIds /\ sessions[s].user = u

\* UserProfile.objects.get_or_create(user=u)
ProfileOf(u) ==
    IF u \in DOMAIN profiles THEN profiles[u]
    ELSE [tokens |-> SignupTokens, subscription_plan |-> "basic",
          last_token_grant_date |-> None]

\* ids a request may name: the rows that exist and one that does not
SessionInputs == 1..MaxSessions
QuestionInputs == QuestionIds \cup {0, None}

\* ------------------------------------------------------------------------
\* Starting a quiz
\* ------------------------------------------------------------------------
\* the incomplete sessions of user u for exam e
IncompleteSessions(u, e) ==
    {s \in SessionIds : sessions[s].user = u /\ sessions[s].exam = e
                        /\ ~sessions[s].is_completed}

\* .order_by('-started_at').first(); rows started at the same instant come in
\* an order the database chooses
LatestOf(S) == {s \in S : \A t \in S : sessions[t].started_at <= sessions[s].started_at}

CreateSession(u, e) ==
    /\ seq.session <= MaxSessions
    /\ sessions' = Put(sessions, seq.session, NewSession(u, e))
    /\ seq' = [seq EXCEPT !.session = @ + 1]

QuizStartAlwaysCreates(u, e) ==
    /\ e \in ExamIds /\ exams[e].is_active /\ ActiveQuestions(e) # {}
    /\ CreateSession(u, e)
    /\ response' = Reply("quiz_start", u, 302, seq.session, "quiz_question")
    /\ UNCHANGED <<now, exams, questions, choices, answers, profiles, categories, topics, files, ai_calls, importers, bookmarks>>

QuizStartRestartsLatest(u, e) ==
    LET mine == {s \in SessionIds : sessions[s].user = u /\ sessions[s].exam = e}
    IN  /\ IF ~(e \in ExamIds /\ exams[e].is_active)
           THEN /\ response' = Reply("quiz_start", u, 404, None, "")
                /\ UNCHANGED <<sessions, seq>>
           ELSE IF ActiveQuestions(e) = {}
           THEN /\ response' = Reply("quiz_start", u, 302, None, "exam_list")
                /\ UNCHANGED <<sessions, seq>>
           ELSE IF mine # {}
           THEN /\ \E s \in LatestOf(mine) :
                      /\ sessions' = [sessions EXCEPT ![s] = NewSession(u, e)]
                      /\ response' = Reply("quiz_start", u, 302, s, "quiz_question")
                /\ UNCHANGED seq
           ELSE /\ CreateSession(u, e)
                /\ response' = Reply("quiz_start", u, 302, seq.session, "quiz_question")
        /\ UNCHANGED <<now, exams, questions, choices, answers, profiles, categories, topics, files, ai_calls, importers, bookmarks>>

QuizStart(u, e) ==
    /\ IF ~(e \in ExamIds /\ exams[e].is_active)
       THEN /\ response' = Reply("quiz_start", u, 404, None, "")
            /\ UNCHANGED <<sessions, seq>>
       ELSE IF ActiveQuestions(e) = {}
       THEN /\ response' = Reply("quiz_start", u, 302, None, "exam_list")
            /\ UNCHANGED <<sessions, seq>>
       ELSE IF IncompleteSessions(u, e) # {}
       THEN /\ \E s \in LatestOf(IncompleteSessions(u, e)) :
                  response' = Reply("quiz_start", u, 302, s, "quiz_question")
            /\ UNCHANGED <<sessions, seq>>
       ELSE /\ CreateSession(u, e)
            /\ response' = Reply("quiz_start", u, 302, seq.session, "quiz_question")
    /\ UNCHANGED <<now, exams, questions, choices, answers, profiles, categories, topics, files, ai_calls, importers, bookmarks>>

\* QuizSessionViewSet.create
RestCreate(u, e) ==
    /\ IF ~(e \in ExamIds /\ exams[e].is_active)
       THEN /\ response' = Reply("api_create", u, 404, None, "")
            /\ UNCHANGED <<sessions, seq>>
       ELSE IF ActiveQuestions(e) = {}
       THEN /\ response' = Reply("api_create", u, 400, None, "")
            /\ UNCHANGED <<sessions, seq>>
       ELSE /\ CreateSession(u, e)
            /\ response' = Reply("api_create", u, 201, seq.session, "")
    /\ UNCHANGED <<now, exams, questions, choices, answers, profiles, categories, topics, files, ai_calls, importers, bookmarks>>

\* ------------------------------------------------------------------------
\* Viewing a question
\* ------------------------------------------------------------------------
QuizQuestion(u, s) ==
    /\ IF ~Owns(u, s)
       THEN /\ response' = Reply("quiz_question", u, 404, None, "")
            /\ UNCHANGED sessions
       ELSE IF sessions[s].is_completed
       THEN /\ response' = Reply("quiz_question", u, 302, s, "quiz_result")
            /\ UNCHANGED sessions
       ELSE IF ActiveQuestions(sessions[s].exam) = {}
       THEN /\ response' = Reply("quiz_question", u, 302, s, "exam_list")
            /\ UNCHANGED sessions
       ELSE /\ sessions' = IF sessions[s].is_paused
                           THEN [sessions EXCEPT ![s] = ResumeQuizRow(@)[1]]
                           ELSE sessions
            /\ response' = Reply("quiz_question", u, 200, s, "")
    /\ UNCHANGED <<now, exams, questions, choices, answers, profiles, seq, categories, topics, files, ai_calls, importers, bookmarks>>

\* ------------------------------------------------------------------------
\* Submitting an answer
\* ------------------------------------------------------------------------
\* user_answer.selected_choices.set(valid); check_answer(); save(), on the
\* row get_or_create(quiz_session=s, question=q) returns
StoreAnswerKeepsOld(s, q, valid) ==
    IF AnswersFor(s, q) = {}
    THEN /\ answers' = Put(answers, seq.answer,
                           [quiz_session |-> s, question |-> q, selected_choices |-> valid,
                            is_correct |-> CheckAnswer(q, valid, FALSE)])
         /\ seq' = [seq EXCEPT !.answer = @ + 1]
    ELSE \E a \in AnswersFor(s, q) :
            /\ answers' = [answers EXCEPT ![a].selected_choices = @ \cup valid,
                                          ![a].is_correct = CheckAnswer(q, valid, @)]
            /\ UNCHANGED seq

StoreAnswer(s, q, valid) ==
    IF AnswersFor(s, q) = {}
    THEN /\ answers' = Put(answers, seq.answer,
                           [quiz_session |-> s, question |-> q, selected_choices |-> valid,
                            is_correct |-> CheckAnswer(q, valid, FALSE)])
         /\ seq' = [seq EXCEPT !.answer = @ + 1]
    ELSE \E a \in AnswersFor(s, q) :
            /\ answers' = [answers EXCEPT ![a].selected_choices = valid,
                                          ![a].is_correct = CheckAnswer(q, valid, @)]
            /\ UNCHANGED seq

\* Choice.objects.filter(id__in=cids, question=q)
ValidChoices(q, cids) == cids \cap ChoicesOf(q)

\* the part the web view and the REST action share
SubmitAccepted(u, s, q, cids) ==
    /\ Owns(u, s) /\ ~sessions[s].is_completed
    /\ q # None /\ cids # {}
    /\ q \in QuestionIds /\ questions[q].exam = sessions[s].exam
    /\ ValidChoices(q, cids) # {}

SubmitStatusIgnoresCompleted(u, s, q, cids) ==
    IF ~Owns(u, s) THEN 404
    ELSE IF q = None \/ cids = {} THEN 400
    ELSE IF ~(q \in QuestionIds /\ questions[q].exam = sessions[s].exam) THEN 404
    ELSE IF ValidChoices(q, cids) = {} THEN 400
    ELSE 200

SubmitStatus(u, s, q, cids) ==
    IF ~Owns(u, s) THEN 404
    ELSE IF sessions[s].is_completed THEN 400
    ELSE IF q = None \/ cids = {} THEN 400
    ELSE IF ~(q \in QuestionIds /\ questions[q].exam = sessions[s].exam) THEN 404
    ELSE IF ValidChoices(q, cids) = {} THEN 400
    ELSE 200

Submit(op, u, s, q, cids) ==
    /\ IF SubmitStatus(u, s, q, cids) = 200
       THEN StoreAnswer(s, q, ValidChoices(q, cids))
       ELSE UNCHANGED <<answers, seq>>
    /\ response' = Reply(op, u, SubmitStatus(u, s, q, cids),
                         IF Owns(u, s) THEN s ELSE None, "")
    /\ UNCHANGED <<now, exams, questions, choices, sessions, profiles, categories, topics, files, ai_calls, importers, bookmarks>>

QuizSubmitAnswer(m, u, s, q, cids) ==
    IF m # "POST"
    THEN /\ response' = Reply("quiz_submit_answer", u, 405, None, "")
         /\ UNCHANGED <<now, exams, questions, choices, sessions, answers, profiles, seq, categories, topics, files, ai_calls, importers, bookmarks>>
    ELSE Submit("quiz_submit_answer", u, s, q, cids)

\* QuizSessionViewSet.submit_answer
RestSubmitAnswer(u, s, q, cids) == Submit("api_submit_answer", u, s, q, cids)

\* ------------------------------------------------------------------------
\* Pause and resume
\* ------------------------------------------------------------------------
PauseQuiz(m, u, s) ==
    /\ IF m # "POST"
       THEN /\ response' = Reply("pause_quiz", u, 405, None, "")
            /\ UNCHANGED sessions
       ELSE IF ~Owns(u, s)
       THEN /\ response' = Reply("pause_quiz", u, 404, None, "")
            /\ UNCHANGED sessions
       ELSE IF sessions[s].is_completed
       THEN /\ response' = Reply("pause_quiz", u, 400, s, "")
            /\ UNCHANGED sessions
       ELSE /\ sessions' = [sessions EXCEPT ![s] = PauseQuizRow(@)[1]]
            /\ response' = Reply("pause_quiz", u,
                                 IF PauseQuizRow(sessions[s])[2] THEN 200 ELSE 400, s, "")
    /\ UNCHANGED <<now, exams, questions, choices, answers, profiles, seq, categories, topics, files, ai_calls, importers, bookmarks>>

ResumeQuiz(m, u, s) ==
    /\ IF m # "POST"
       THEN /\ response' = Reply("resume_quiz", u, 405, None, "")
            /\ UNCHANGED sessions
       ELSE IF ~Owns(u, s)
       THEN /\ response' = Reply("resume_quiz", u, 404, None, "")
            /\ UNCHANGED sessions
       ELSE IF sessions[s].is_completed
       THEN /\ response' = Reply("resume_quiz", u, 400, s, "")
            /\ UNCHANGED sessions
       ELSE /\ sessions' = [sessions EXCEPT ![s] = ResumeQuizRow(@)[1]]
            /\ response' = Reply("resume_quiz", u,
                                 IF ResumeQuizRow(sessions[s])[2] THEN 200 ELSE 400, s, "")
    /\ UNCHANGED <<now, exams, questions, choices, answers, profiles, seq, categories, topics, files, ai_calls, importers, bookmarks>>

\* ------------------------------------------------------------------------
\* Results and completion
\* ------------------------------------------------------------------------
\* the session row and the owner's profile after the result view
ResultRow(s) ==
    LET row == sessions[s]
        done == IF row.is_completed THEN row ELSE CompleteQuiz(s, row)
    IN  CalculateScore(s, done)

\* a variant that looks at the score alone
ResultGrantsEveryView(s) ==
    ScoreAtLeast(ResultRow(s).score, exams[sessions[s].exam].passing_score)

\* quiz_result grants the bonus: the session was not completed before this
\* view, holds no grant, and its score reaches the exam's passing_score
ResultGrants(s) ==
    /\ ~sessions[s].is_completed
    /\ ~ResultRow(s).tokens_granted
    /\ ScoreAtLeast(ResultRow(s).score, exams[sessions[s].exam].passing_score)

QuizResult(u, s) ==
    /\ IF ~Owns(u, s)
       THEN /\ response' = Reply("quiz_result", u, 404, None, "")
            /\ UNCHANGED <<sessions, profiles>>
       ELSE /\ sessions' = [sessions EXCEPT ![s] =
                              IF ResultGrants(s)
                              THEN [ResultRow(s) EXCEPT !.tokens_granted = TRUE]
                              ELSE ResultRow(s)]
            /\ profiles' = IF ResultGrants(s)
                           THEN Put(profiles, u,
                                    [ProfileOf(u) EXCEPT !.tokens = @ + PassBonus])
                           ELSE profiles
            /\ response' = Reply("quiz_result", u, 200, s, "")
    /\ UNCHANGED <<now, exams, questions, choices, answers, seq, categories, topics, files, ai_calls, importers, bookmarks>>

\* QuizSessionViewSet.complete
RestComplete(u, s) ==
    /\ IF ~Owns(u, s)
       THEN /\ response' = Reply("api_complete", u, 404, None, "")
            /\ UNCHANGED sessions
       ELSE IF sessions[s].is_completed
       THEN /\ response' = Reply("api_complete", u, 400, s, "")
            /\ UNCHANGED sessions
       ELSE /\ sessions' = [sessions EXCEPT ![s] = CompleteQuiz(s, @)]
            /\ response' = Reply("api_complete", u, 200, s, "")
    /\ UNCHANGED <<now, exams, questions, choices, answers, profiles, seq, categories, topics, files, ai_calls, importers, bookmarks>>

\* QuizSessionViewSet.results
RestResults(u, s) ==
    /\ IF ~Owns(u, s)
       THEN /\ response' = Reply("api_results", u, 404, None, "")
            /\ UNCHANGED sessions
       ELSE /\ sessions' = IF sessions[s].is_completed THEN sessions
                           ELSE [sessions EXCEPT ![s] = CompleteQuiz(s, @)]
            /\ response' = Reply("api_results", u, 200, s, "")
    /\ UNCHANGED <<now, exams, questions, choices, answers, profiles, seq, categories, topics, files, ai_calls, importers, bookmarks>>

\* QuizSessionViewSet.retrieve: get_object() on the requester's sessions
RestRetrieve(u, s) ==
    /\ response' = IF Owns(u, s) THEN Reply("api_retrieve", u, 200, s, "")
                   ELSE Reply("api_retrieve", u, 404, None, "")
    /\ UNCHANGED <<now, exams, questions, choices, sessions, answers, profiles, seq, categories, topics, files, ai_calls, importers, bookmarks>>

\* ------------------------------------------------------------------------
\* Bookmarks
\* ------------------------------------------------------------------------
ToggleBookmark(m, u, q) ==
    /\ IF m # "POST"
       THEN /\ response' = Reply("toggle_bookmark", u, 405, None, "")
            /\ UNCHANGED bookmarks
       ELSE IF q \notin QuestionIds
       THEN /\ response' = Reply("toggle_bookmark", u, 404, None, "")
            /\ UNCHANGED bookmarks
       ELSE /\ bookmarks' = IF <<u, q>> \in bookmarks THEN bookmarks \ {<<u, q>>}
                            ELSE bookmarks \cup {<<u, q>>}
            /\ response' = Reply("toggle_bookmark", u, 200, None, "")
    /\ UNCHANGED <<now, categories, exams, topics, questions, choices, sessions, answers, profiles, seq, files, ai_calls, importers>>

\* ------------------------------------------------------------------------
\* The administrator edits rows through the admin site
\* ------------------------------------------------------------------------
AdminSetQuestionActive(q, b) ==
    /\ q \in QuestionIds /\ questions[q].is_active # b
    /\ questions' = [questions EXCEPT ![q].is_active = b]
    /\ response' = Reply("admin", "admin", 200, None, "")
    /\ UNCHANGED <<now, exams, choices, sessions, answers, profiles, seq, categories, topics, files, ai_calls, importers, bookmarks>>

AdminSetQuestionType(q, t) ==
    /\ q \in QuestionIds /\ questions[q].question_type # t
    /\ questions' = [questions EXCEPT ![q].question_type = t]
    /\ response' = Reply("admin", "admin", 200, None, "")
    /\ UNCHANGED <<now, exams, choices, sessions, answers, profiles, seq, categories, topics, files, ai_calls, importers, bookmarks>>

AdminSetChoiceCorrect(c, b) ==
    /\ c \in ChoiceIds /\ choices[c].is_correct # b
    /\ choices' = [choices EXCEPT ![c].is_correct = b]
    /\ response' = Reply("admin", "admin", 200, None, "")
    /\ UNCHANGED <<now, exams, questions, sessions, answers, profiles, seq, categories, topics, files, ai_calls, importers, bookmarks>>

AdminSetExamDuration(e, m) ==
    /\ e \in ExamIds /\ exams[e].duration_minutes # m
    /\ exams' = [exams EXCEPT ![e].duration_minutes = m]
    /\ response' = Reply("admin", "admin", 200, None, "")
    /\ UNCHANGED <<now, questions, choices, sessions, answers, profiles, seq, categories, topics, files, ai_calls, importers, bookmarks>>

\* ------------------------------------------------------------------------
\* The administrator deletes rows: the rows Django's collector gathers
\* through the foreign keys with on_delete=CASCADE, and SET_NULL for the
\* topic of a question
\* ------------------------------------------------------------------------
\* a variant that does not follow UserAnswer.question
AdminDeleteKeepsAnswersOfQuestions(cs, es, ts, qs) ==
    /\ cs \subseteq DOMAIN categories /\ es \subseteq ExamIds
    /\ ts \subseteq DOMAIN topics /\ qs \subseteq QuestionIds
    /\ cs \cup es \cup ts \cup qs # {}
    /\ LET E == es \cup {e \in ExamIds : exams[e].category \in cs}
           T == ts \cup {t \in DOMAIN topics : topics[t].exam \in E}
           Q == qs \cup {q \in QuestionIds : questions[q].exam \in E}
           S == {s \in SessionIds : sessions[s].exam \in E}
           Ch == {c \in ChoiceIds : choices[c].question \in Q}
           A == {a \in AnswerIds : answers[a].quiz_session \in S}
       IN  /\ categories' = Drop(categories, cs)
           /\ exams' = Drop(exams, E)
           /\ topics' = Drop(topics, T)
           /\ questions' = [q \in QuestionIds \ Q |->
                              IF questions[q].topic \in T
                              THEN [questions[q] EXCEPT !.topic = None]
                              ELSE questions[q]]
           /\ choices' = Drop(choices, Ch)
           /\ sessions' = Drop(sessions, S)
           /\ answers' = [a \in AnswerIds \ A |->
                            [answers[a] EXCEPT !.selected_choices = @ \ Ch]]
           /\ bookmarks' = {b \in bookmarks : b[2] \notin Q}
    /\ response' = Reply("admin_delete", "admin", 200, None, "")
    /\ UNCHANGED <<now, profiles, seq, files, ai_calls, importers>>

\* the delete of categories cs, exams es, topics ts and questions qs
AdminDelete(cs, es, ts, qs) ==
    /\ cs \subseteq DOMAIN categories /\ es \subseteq ExamIds
    /\ ts \subseteq DOMAIN topics /\ qs \subseteq QuestionIds
    /\ cs \cup es \cup ts \cup qs # {}
    /\ LET E == es \cup {e \in ExamIds : exams[e].category \in cs}
           T == ts \cup {t \in DOMAIN topics : topics[t].exam \in E}
           Q == qs \cup {q \in QuestionIds : questions[q].exam \in E}
           S == {s \in SessionIds : sessions[s].exam \in E}
           Ch == {c \in ChoiceIds : choices[c].question \in Q}
           A == {a \in AnswerIds : answers[a].quiz_session \in S
                                     \/ answers[a].question \in Q}
       IN  /\ categories' = Drop(categories, cs)
           /\ exams' = Drop(exams, E)
           /\ topics' = Drop(topics, T)
           /\ questions' = [q \in QuestionIds \ Q |->
                              IF questions[q].topic \in T
                              THEN [questions[q] EXCEPT !.topic = None]
                              ELSE questions[q]]
           /\ choices' = Drop(choices, Ch)
           /\ sessions' = Drop(sessions, S)
           /\ answers' = [a \in AnswerIds \ A |->
                            [answers[a] EXCEPT !.selected_choices = @ \ Ch]]
           /\ bookmarks' = {b \in bookmarks : b[2] \notin Q}
    /\ response' = Reply("admin_delete", "admin", 200, None, "")
    /\ UNCHANGED <<now, profiles, seq, files, ai_calls, importers>>

\* ------------------------------------------------------------------------
\* Tokens: the profile of a user and its daily grant
\* ------------------------------------------------------------------------
\* timezone.now().date(), as the number of the day
Today == IntSeconds(now) \div SecondsPerDay

\* a variant that grants on every call
GrantDailyTokensEveryCall(p) ==
    [profile |-> [p EXCEPT !.tokens = @ + DailyTokens, !.last_token_grant_date = Today],
     granted |-> TRUE]

\* UserProfile.grant_daily_tokens: the row it saves and the value it returns
GrantDailyTokens(p) ==
    IF p.last_token_grant_date = Today
    THEN [profile |-> p, granted |-> FALSE]
    ELSE [profile |-> [p EXCEPT !.tokens = @ + DailyTokens,
                                !.last_token_grant_date = Today],
          granted |-> TRUE]

\* a variant that leaves last_token_grant_date empty
RegisterWithoutGrantDate(u) ==
    /\ u \notin DOMAIN profiles
    /\ profiles' = Put(profiles, u, [tokens |-> SignupTokens, subscription_plan |-> "basic",
                                     last_token_grant_date |-> None])
    /\ response' = Reply("register", u, 302, None, "")
    /\ UNCHANGED <<now, exams, questions, choices, sessions, answers, seq, categories, topics, files, ai_calls, importers, bookmarks>>

\* register: form.save() creates the user, and create_user_profile, the
\* post_save receiver, its profile
Register(u) ==
    /\ u \notin DOMAIN profiles
    /\ profiles' = Put(profiles, u, [tokens |-> SignupTokens, subscription_plan |-> "basic",
                                     last_token_grant_date |-> Today])
    /\ response' = Reply("register", u, 302, None, "")
    /\ UNCHANGED <<now, exams, questions, choices, sessions, answers, seq, categories, topics, files, ai_calls, importers, bookmarks>>

\* dashboard, for a user who is logged in
Dashboard(u) ==
    /\ u \in DOMAIN profiles
    /\ \E g \in {GrantDailyTokens(ProfileOf(u))} :
           /\ profiles' = Put(profiles, u, g.profile)
           /\ response' = Reply("dashboard", u, 200, None,
                                IF g.granted THEN "You received 10 daily tokens!" ELSE "")
    /\ UNCHANGED <<now, exams, questions, choices, sessions, answers, seq, categories, topics, files, ai_calls, importers, bookmarks>>

\* profile, for a user who is logged in
Profile(u) ==
    /\ u \in DOMAIN profiles
    /\ \E g \in {GrantDailyTokens(ProfileOf(u))} :
           /\ profiles' = Put(profiles, u, g.profile)
           /\ response' = Reply("profile", u, 200, None,
                                IF g.granted THEN "You received 10 daily tokens!" ELSE "")
    /\ UNCHANGED <<now, exams, questions, choices, sessions, answers, seq, categories, topics, files, ai_calls, importers, bookmarks>>

\* the management command grant_daily_tokens: Command.handle
GrantDailyTokensCommand ==
    /\ profiles' = [u \in DOMAIN profiles |-> GrantDailyTokens(profiles[u]).profile]
    /\ response' = Reply("grant_daily_tokens", "command", 0, None, "")
    /\ UNCHANGED <<now, exams, questions, choices, sessions, answers, seq, categories, topics, files, ai_calls, importers, bookmarks>>

\* UserProfileAdmin: the administrator edits the tokens of a profile
AdminSetTokens(u, n) ==
    /\ u \in DOMAIN profiles /\ profiles[u].tokens # n
    /\ profiles' = [profiles EXCEPT ![u].tokens = n]
    /\ response' = Reply("admin", "admin", 200, None, "")
    /\ UNCHANGED <<now, exams, questions, choices, sessions, answers, seq, categories, topics, files, ai_calls, importers, bookmarks>>

\* ------------------------------------------------------------------------
\* The AI assistant: ai_assistant up to the external call, and from its
\* return on
\* ------------------------------------------------------------------------
\* the status ai_assistant answers with before the external call, or 0 when
\* it makes the call; a failed get_object_or_404 is caught by the view's own
\* 'except Exception'
AiAssistantStatus(m, u, message, s, q, configured) ==
    IF m # "POST" THEN 405
    ELSE IF message = "" THEN 400
    ELSE IF ProfileOf(u).tokens < TokensPerAiRequest THEN 403
    ELSE IF s # 0 /\ ~Owns(u, s) THEN 500
    ELSE IF s # 0 /\ q # 0 /\ ~(q \in QuestionIds /\ questions[q].exam = sessions[s].exam)
    THEN 500
    ELSE IF ~configured THEN 503
    ELSE 0

\* a variant whose balance check counts the calls the user has in flight
AiAssistantCountsCallsInFlight(r, m, u, message, s, q, configured) ==
    /\ r \notin DOMAIN ai_calls /\ u \in DOMAIN profiles
    /\ IF AiAssistantStatus(m, u, message, s, q, configured) = 0
          /\ ProfileOf(u).tokens >= TokensPerAiRequest
                + Cardinality({x \in DOMAIN ai_calls : ai_calls[x].user = u})
       THEN /\ ai_calls' = Put(ai_calls, r, [user |-> u, session |-> s])
            /\ UNCHANGED response
       ELSE /\ response' = Reply("ai_assistant", u, 403, None, "")
            /\ UNCHANGED ai_calls
    /\ UNCHANGED <<now, exams, questions, choices, sessions, answers, profiles, seq, categories, topics, files, importers, bookmarks>>

\* request r of user u reaches client.chat.completions.create, or is
\* answered before
AiAssistant(r, m, u, message, s, q, configured) ==
    /\ r \notin DOMAIN ai_calls /\ u \in DOMAIN profiles
    /\ IF AiAssistantStatus(m, u, message, s, q, configured) = 0
       THEN /\ ai_calls' = Put(ai_calls, r, [user |-> u, session |-> s])
            /\ UNCHANGED response
       ELSE /\ response' = Reply("ai_assistant", u,
                                 AiAssistantStatus(m, u, message, s, q, configured),
                                 None, "")
            /\ UNCHANGED ai_calls
    /\ UNCHANGED <<now, exams, questions, choices, sessions, answers, profiles, seq, categories, topics, files, importers, bookmarks>>

\* a variant that deducts whether or not the external call succeeded
AiAssistantReturnAlwaysDeducts(r, ok) ==
    /\ r \in DOMAIN ai_calls
    /\ profiles' = [profiles EXCEPT ![ai_calls[r].user].tokens =
                       Max(0, @ - TokensPerAiRequest)]
    /\ response' = Reply("ai_assistant", ai_calls[r].user, IF ok THEN 200 ELSE 500,
                         None, "")
    /\ ai_calls' = Drop(ai_calls, {r})
    /\ UNCHANGED <<now, exams, questions, choices, sessions, answers, seq, categories, topics, files, importers, bookmarks>>

\* the external call of request r returns (ok) or raises: refresh_from_db,
\* deduct_tokens and the response
AiAssistantReturn(r, ok) ==
    /\ r \in DOMAIN ai_calls
    /\ IF ok /\ profiles[ai_calls[r].user].tokens >= TokensPerAiRequest
       THEN /\ profiles' = [profiles EXCEPT ![ai_calls[r].user].tokens =
                               @ - TokensPerAiRequest]
            /\ response' = Reply("ai_assistant", ai_calls[r].user, 200, None, "success")
       ELSE /\ UNCHANGED profiles
            /\ response' = Reply("ai_assistant", ai_calls[r].user, 500, None,
                                 IF ok THEN "Failed to deduct tokens"
                                 ELSE "Error calling OpenAI API")
    /\ ai_calls' = Drop(ai_calls, {r})
    /\ UNCHANGED <<now, exams, questions, choices, sessions, answers, seq, categories, topics, files, importers, bookmarks>>

\* ------------------------------------------------------------------------
\* The clock: requests arrive at the instants of P
\* ------------------------------------------------------------------------
Tick(P) ==
    /\ \E t \in P : t > now /\ now' = t
    /\ UNCHANGED <<exams, questions, choices, sessions, answers, profiles, seq, response, categories, topics, files, ai_calls, importers, bookmarks>>

\* ------------------------------------------------------------------------
\* The importer: Command.process_row
\* ------------------------------------------------------------------------

ChoiceKeys == <<"choice_1", "choice_2", "choice_3", "choice_4", "choice_5", "choice_6">>

\* row.get(key, default)
Get(row, key, default) == IF key \in DOMAIN row THEN row[key] ELSE default

\* the rows of the database the importer reads and writes
Database ==
    [categories |-> categories, exams |-> exams, topics |-> topics,
     questions |-> questions, choices |-> choices, answers |-> answers, seq |-> seq]

\* the first index of S, as a set of at most one index
First(S) == IF S = {} THEN {} ELSE {CHOOSE x \in S : \A y \in S : x <= y}

NonEmpty(c) == c # <<>>
StripNonEmpty(c) == Strip(c) # <<>>

\* choices_list of process_row
RECURSIVE NonEmptyChoiceColumns(_, _)
NonEmptyChoiceColumns(row, i) ==
    IF i > Len(ChoiceKeys) THEN <<>>
    ELSE SelectSeq(<<RemoveAllBrackets(Strip(Get(row, ChoiceKeys[i], <<>>)))>>, NonEmpty)
            \o NonEmptyChoiceColumns(row, i + 1)

CleanEach(pieces) == [i \in 1..Len(pieces) |-> RemoveAllBrackets(Strip(pieces[i]))]
ChoicesList(row, has_choice_columns) ==
    IF has_choice_columns THEN NonEmptyChoiceColumns(row, 1)
    ELSE CleanEach(SelectSeq(Split(RemoveAllBrackets(Strip(Get(row, "choices", <<>>))), "|"),
                             StripNonEmpty))

\* The heuristics resolving correct_answer; each yields a set of 0-based
\* indices into choices_list.
Norm(text) == Lower(Strip(text))

\* one text contains the other
Overlap(a, b) == Contains(a, b) \/ Contains(b, a)

FirstIfSingle(hits, question_type) ==
    IF question_type = "single" THEN First(hits) ELSE hits

SubstringMatch(choices_list, answer, question_type) ==
    FirstIfSingle({i \in 0..(Len(choices_list) - 1) :
                      Overlap(Norm(choices_list[i + 1]), Norm(answer))},
                  question_type)

InQuestionHits(choices_list, correct_lower, num) ==
    {i \in 0..(Len(choices_list) - 1) :
        \/ Contains(Norm(choices_list[i + 1]), correct_lower)
        \/ /\ num.ok
           /\ \/ Contains(choices_list[i + 1], IntToStr(num.val))
              \/ Contains(choices_list[i + 1], correct_lower)}

InQuestionWith(choices_list, correct_lower, question_text) ==
    IF Contains(Lower(question_text), correct_lower)
    THEN First(InQuestionHits(choices_list, correct_lower, ParseInt(correct_lower)))
    ELSE {}

\* [int(x.strip()) for x in text.split(sep)], or ValueError
IntsOf(pieces) ==
    [ok |-> \A i \in DOMAIN pieces : ParseInt(pieces[i]).ok,
     vals |-> {ParseInt(pieces[i]).val : i \in DOMAIN pieces}]
IntList(text, sep) == IntsOf(Split(text, sep))

InRange(vals, n) == {v - 1 : v \in {w \in vals : 1 <= w /\ w <= n}}

NormEach(pieces) == {Norm(pieces[i]) : i \in DOMAIN pieces}
PipeTextMatch(choices_list, answer) ==
    {i \in 0..(Len(choices_list) - 1) :
        \E c \in NormEach(SelectSeq(Split(answer, "|"), StripNonEmpty)) :
            Overlap(Norm(choices_list[i + 1]), c)}

\* the indices named by the first of: one number, numbers separated by
\* commas, numbers separated by pipes; else the pipe-separated texts
NumericOr(n, one, commas, pipes, texts) ==
    IF one.ok THEN InRange({one.val}, n)
    ELSE IF commas.ok THEN InRange(commas.vals, n)
    ELSE IF pipes.ok THEN InRange(pipes.vals, n)
    ELSE texts

NumericMatch(choices_list, answer) ==
    NumericOr(Len(choices_list), ParseInt(answer), IntList(answer, ","),
              IntList(answer, "|"), PipeTextMatch(choices_list, answer))

\* correct_indices of process_row
\* "if not correct_indices:" before the next heuristic
OrElse(found, next) == IF found # {} THEN found ELSE next

\* a variant that tries the numeric index before the texts
CorrectIndicesNumericFirst(choices_list, answer, question_text, question_type) ==
    IF answer = <<>> THEN {}
    ELSE OrElse(NumericMatch(choices_list, answer),
         OrElse(First({i \in 0..(Len(choices_list) - 1) :
                          Norm(choices_list[i + 1]) = Norm(answer)}),
         OrElse(SubstringMatch(choices_list, answer, question_type),
         OrElse(InQuestionWith(choices_list, Norm(answer), question_text),
                IF Contains(answer, <<"|">>)
                THEN PipeTextMatch(choices_list, answer)
                ELSE {}))))

\* a variant whose exact match takes every choice with the text
CorrectIndicesEveryExact(choices_list, answer, question_text, question_type) ==
    IF answer = <<>> THEN {}
    ELSE OrElse({i \in 0..(Len(choices_list) - 1) :
                    Norm(choices_list[i + 1]) = Norm(answer)},
         OrElse(SubstringMatch(choices_list, answer, question_type),
         OrElse(InQuestionWith(choices_list, Norm(answer), question_text),
         OrElse(NumericMatch(choices_list, answer),
                IF Contains(answer, <<"|">>)
                THEN PipeTextMatch(choices_list, answer)
                ELSE {}))))

CorrectIndices(choices_list, answer, question_text, question_type) ==
    IF answer = <<>> THEN {}
    ELSE OrElse(First({i \in 0..(Len(choices_list) - 1) :
                          Norm(choices_list[i + 1]) = Norm(answer)}),
         OrElse(SubstringMatch(choices_list, answer, question_type),
         OrElse(InQuestionWith(choices_list, Norm(answer), question_text),
         OrElse(NumericMatch(choices_list, answer),
                IF Contains(answer, <<"|">>)
                THEN PipeTextMatch(choices_list, answer)
                ELSE {}))))

\* int(float(text)) of import_questions_excel, for decimal notation (no
\* exponent, inf, nan or underscore): [ok |-> FALSE] stands for ValueError
IntFloat(text) ==
    LET parts == Split(Strip(text), ".")
    IN  IF Len(parts) = 1 THEN ParseInt(text)
        ELSE IF /\ Len(parts) = 2
                /\ \A i \in DOMAIN parts[2] : \E d \in DOMAIN Digits : Digits[d] = parts[2][i]
                /\ IF parts[1] \in {<<>>, <<"+">>, <<"-">>} THEN parts[2] # <<>>
                   ELSE ParseInt(parts[1]).ok /\ RStrip(parts[1]) = parts[1]
        THEN [ok |-> TRUE,
              val |-> IF parts[1] \in {<<>>, <<"+">>, <<"-">>} THEN 0 ELSE ParseInt(parts[1]).val]
        ELSE [ok |-> FALSE, val |-> 0]

\* correct_indices of import_questions_excel's process_row: exact text,
\* substring, then one number or numbers separated by commas
ExcelCorrectIndices(choices_list, answer, question_type) ==
    IF answer = <<>> THEN {}
    ELSE OrElse(First({i \in 0..(Len(choices_list) - 1) :
                          Norm(choices_list[i + 1]) = Norm(answer)}),
         OrElse(SubstringMatch(choices_list, answer, question_type),
                LET pieces == Split(answer, ",")
                IN  NumericOr(Len(choices_list), IntFloat(answer),
                              [ok |-> \A i \in DOMAIN pieces : IntFloat(pieces[i]).ok,
                               vals |-> {IntFloat(pieces[i]).val : i \in DOMAIN pieces}],
                              [ok |-> FALSE, vals |-> {}], {})))

\* the stored value of a cell naming a question type or a difficulty
QuestionTypeOf(text) ==
    IF Norm(text) = <<"m","u","l","t","i","p","l","e">> THEN "multiple"
    ELSE IF Norm(text) = <<"t","r","u","e","_","f","a","l","s","e">> THEN "true_false"
    ELSE "single"

DifficultyOf(text) ==
    IF Norm(text) = <<"e","a","s","y">> THEN "easy"
    ELSE IF Norm(text) = <<"h","a","r","d">> THEN "hard"
    ELSE "medium"

\* int(cell) if cell else default, with ValueError giving the default too
ParsedOr(text, int, default) == IF text # <<>> /\ int.ok THEN int.val ELSE default
IntOr(text, default) == ParsedOr(Strip(text), ParseInt(text), default)

DefaultDurationMinutes == 60
DefaultTotalQuestions == 10
DefaultPassingScore == 60

Failed(db, msg) == [db |-> db, ok |-> FALSE, created |-> FALSE, choices_count |-> 0, error |-> msg]

\* Category.objects.get_or_create(name=...)
CategoryNamed(db, name) == {c \in DOMAIN db.categories : db.categories[c].name = name}
WithCategory(db, name) ==
    IF CategoryNamed(db, name) # {} THEN db
    ELSE [db EXCEPT !.categories = Put(@, db.seq.category, [name |-> name]),
                    !.seq.category = @ + 1]

\* Exam.objects.get_or_create(category=..., name=..., defaults=...)
ExamNamed(db, category, name) ==
    {e \in DOMAIN db.exams : db.exams[e].category = category /\ db.exams[e].name = name}
WithExam(db, category, name) ==
    IF ExamNamed(db, category, name) # {} THEN db
    ELSE [db EXCEPT !.exams = Put(@, db.seq.exam,
                                  [category |-> category, name |-> name,
                                   duration_minutes |-> DefaultDurationMinutes,
                                   total_questions |-> DefaultTotalQuestions,
                                   passing_score |-> DefaultPassingScore,
                                   is_active |-> TRUE]),
                    !.seq.exam = @ + 1]

\* Topic.objects.get_or_create(exam=..., name=...)
TopicNamed(db, exam, name) ==
    {t \in DOMAIN db.topics : db.topics[t].exam = exam /\ db.topics[t].name = name}
WithTopic(db, exam, name) ==
    IF TopicNamed(db, exam, name) # {} THEN db
    ELSE [db EXCEPT !.topics = Put(@, db.seq.topic, [exam |-> exam, name |-> name]),
                    !.seq.topic = @ + 1]

\* Question.objects.update_or_create(exam=..., question_text=..., defaults=...)
QuestionNamed(db, exam, text) ==
    {q \in DOMAIN db.questions :
        db.questions[q].exam = exam /\ db.questions[q].question_text = text}
\* a variant that always inserts a row
WithQuestionInsertOnly(db, exam, text, fields) ==
    [db EXCEPT !.questions = Put(@, db.seq.question, fields),
               !.seq.question = @ + 1]

WithQuestion(db, exam, text, fields) ==
    IF QuestionNamed(db, exam, text) # {}
    THEN [db EXCEPT !.questions = Put(@, CHOOSE q \in QuestionNamed(db, exam, text) : TRUE, fields)]
    ELSE [db EXCEPT !.questions = Put(@, db.seq.question, fields),
                    !.seq.question = @ + 1]

\* question.choices.all().delete(), which also empties the selections of
\* these choices, then Choice.objects.create for each text of choices_list
ReplaceChoices(db, q, choices_list, correct_indices) ==
    LET old == {c \in DOMAIN db.choices : db.choices[c].question = q}
        kept == Drop(db.choices, old)
        new == [i \in db.seq.choice..(db.seq.choice + Len(choices_list) - 1) |->
                  [question |-> q,
                   choice_text |-> choices_list[i - db.seq.choice + 1],
                   is_correct |-> (i - db.seq.choice) \in correct_indices,
                   order |-> i - db.seq.choice]]
    IN  [db EXCEPT !.choices = [c \in (DOMAIN kept) \cup (DOMAIN new) |->
                                  IF c \in DOMAIN new THEN new[c] ELSE kept[c]],
                   !.answers = [a \in DOMAIN @ |->
                                  [@[a] EXCEPT !.selected_choices = @ \ old]],
                   !.seq.choice = @ + Len(choices_list)]

\* What process_row computes from the row alone, before and between its
\* queries: the names it looks up, the fields of the question, the choices
\* and the indices of the correct ones
OrDefault(text, default) == IF text = <<>> THEN default ELSE text

RowTexts(row, category, exam, question_text, question_type, choices_list, correct_answer) ==
    [category_name |-> RemoveAllBrackets(category),
     exam_empty |-> exam = <<>>,
     exam_name |-> RemoveAllBrackets(exam),
     has_topic |-> Strip(Get(row, "topic", <<>>)) # <<>>,
     topic_name |-> RemoveAllBrackets(Strip(Get(row, "topic", <<>>))),
     question_text |-> question_text,
     question_type |-> question_type,
     difficulty |-> DifficultyOf(Get(row, "difficulty", <<"m","e","d","i","u","m">>)),
     explanation |-> RemoveAllBrackets(Strip(Get(row, "explanation", <<>>))),
     points |-> IntOr(Get(row, "points", <<"1">>), 1),
     order |-> IntOr(Get(row, "order", <<"0">>), 0),
     is_active |-> Norm(Get(row, "is_active", <<"t","r","u","e">>))
                      \in {<<"t","r","u","e">>, <<"1">>, <<"y","e","s">>, <<"y">>, <<>>},
     choices_list |-> choices_list,
     correct_indices |-> CorrectIndices(choices_list, correct_answer,
                                        question_text, question_type)]

RowValues(row, has_choice_columns) ==
    RowTexts(row,
             OrDefault(Strip(Get(row, "category", <<"G","e","n","e","r","a","l">>)), <<"G","e","n","e","r","a","l">>),
             Strip(Get(row, "exam", <<>>)),
             RemoveAllBrackets(Strip(Get(row, "question_text", <<>>))),
             QuestionTypeOf(Get(row, "question_type", <<"s","i","n","g","l","e">>)),
             ChoicesList(row, has_choice_columns),
             RemoveAllBrackets(OrDefault(Strip(Get(row, "correct_answer", <<>>)),
                                         Strip(Get(row, "correct_choices", <<>>)))))

\* Command.process_row on a row with the values v, one query after the
\* other: the database after the row, and whether it raised
Only(S) == CHOOSE x \in S : TRUE

QuestionFields(exam, topic, v) ==
    [exam |-> exam, topic |-> topic, question_text |-> v.question_text,
     question_type |-> v.question_type, difficulty |-> v.difficulty,
     explanation |-> v.explanation, points |-> v.points,
     order |-> v.order, is_active |-> v.is_active]

\* from the choices of the row on, the question being stored
RowChoices(db, created, exam, v) ==
    IF v.choices_list = <<>>
    THEN Failed(db, "At least one choice is required")
    ELSE IF v.correct_indices = {}
    THEN Failed(db, "Could not determine correct answer")
    ELSE [db |-> ReplaceChoices(db, Only(QuestionNamed(db, exam, v.question_text)),
                                v.choices_list, v.correct_indices),
          ok |-> TRUE, created |-> created,
          choices_count |-> Len(v.choices_list), error |-> ""]

\* from Question.objects.update_or_create on
RowQuestion(db, exam, topic, v) ==
    IF v.question_text = <<>>
    THEN Failed(db, "question_text cannot be empty")
    ELSE IF Cardinality(QuestionNamed(db, exam, v.question_text)) > 1
    THEN Failed(db, "get() returned more than one Question")
    ELSE RowChoices(WithQuestion(db, exam, v.question_text, QuestionFields(exam, topic, v)),
                    QuestionNamed(db, exam, v.question_text) = {}, exam, v)

\* from Topic.objects.get_or_create on
RowTopicFound(db, exam, v) ==
    RowQuestion(db, exam,
                IF v.has_topic THEN Only(TopicNamed(db, exam, v.topic_name)) ELSE None, v)

RowTopic(db, exam, v) ==
    RowTopicFound(IF v.has_topic THEN WithTopic(db, exam, v.topic_name) ELSE db, exam, v)

\* from Exam.objects.get_or_create on
RowExamFound(db, category, v) ==
    RowTopic(db, Only(ExamNamed(db, category, v.exam_name)), v)

RowExam(db, category, v) ==
    RowExamFound(WithExam(db, category, v.exam_name), category, v)

\* after Category.objects.get_or_create
RowCategoryFound(db, v) ==
    IF v.exam_empty
    THEN Failed(db, "exam name cannot be empty")
    ELSE RowExam(db, Only(CategoryNamed(db, v.category_name)), v)

ProcessRow(db, v) == RowCategoryFound(WithCategory(db, v.category_name), v)

\* ------------------------------------------------------------------------
\* The importer: Command.process_csv_file
\* ------------------------------------------------------------------------
\* column_mappings, the choice_N variations and the choices column, in the
\* order the code tries them
ColumnMappings == <<
    [standard |-> "category",
     variations |-> <<<<"c","a","t","e","g","o","r","y">>, <<"c","a","t">>>>],
    [standard |-> "exam",
     variations |-> <<<<"e","x","a","m">>, <<"e","x","a","m","_","n","a","m","e">>>>],
    [standard |-> "question_text",
     variations |-> <<<<"q","u","e","s","t","i","o","n","_","t","e","x","t">>, <<"q","u","e","s","t","i","o","n">>, <<"q","u","e","s","t","i","o","n","t","e","x","t">>, <<"q">>>>],
    [standard |-> "topic",
     variations |-> <<<<"t","o","p","i","c">>>>],
    [standard |-> "difficulty",
     variations |-> <<<<"d","i","f","f","i","c","u","l","t","y">>, <<"d","i","f","f">>>>],
    [standard |-> "explanation",
     variations |-> <<<<"e","x","p","l","a","n","a","t","i","o","n">>, <<"e","x","p","l">>>>],
    [standard |-> "points",
     variations |-> <<<<"p","o","i","n","t","s">>, <<"p","o","i","n","t">>>>],
    [standard |-> "question_type",
     variations |-> <<<<"q","u","e","s","t","i","o","n","_","t","y","p","e">>, <<"t","y","p","e">>, <<"q","t","y","p","e">>>>],
    [standard |-> "correct_answer",
     variations |-> <<<<"c","o","r","r","e","c","t","_","a","n","s","w","e","r">>, <<"c","o","r","r","e","c","t","_","c","h","o","i","c","e","s">>, <<"c","o","r","r","e","c","t">>, <<"a","n","s","w","e","r">>, <<"r","i","g","h","t","_","a","n","s","w","e","r">>>>],
    [standard |-> "choice_1",
     variations |-> <<<<"c","h","o","i","c","e","_","1">>, <<"c","h","o","i","c","e","1">>, <<"o","p","t","i","o","n","_","1">>, <<"o","p","t","i","o","n","1">>>>],
    [standard |-> "choice_2",
     variations |-> <<<<"c","h","o","i","c","e","_","2">>, <<"c","h","o","i","c","e","2">>, <<"o","p","t","i","o","n","_","2">>, <<"o","p","t","i","o","n","2">>>>],
    [standard |-> "choice_3",
     variations |-> <<<<"c","h","o","i","c","e","_","3">>, <<"c","h","o","i","c","e","3">>, <<"o","p","t","i","o","n","_","3">>, <<"o","p","t","i","o","n","3">>>>],
    [standard |-> "choice_4",
     variations |-> <<<<"c","h","o","i","c","e","_","4">>, <<"c","h","o","i","c","e","4">>, <<"o","p","t","i","o","n","_","4">>, <<"o","p","t","i","o","n","4">>>>],
    [standard |-> "choice_5",
     variations |-> <<<<"c","h","o","i","c","e","_","5">>, <<"c","h","o","i","c","e","5">>, <<"o","p","t","i","o","n","_","5">>, <<"o","p","t","i","o","n","5">>>>],
    [standard |-> "choice_6",
     variations |-> <<<<"c","h","o","i","c","e","_","6">>, <<"c","h","o","i","c","e","6">>, <<"o","p","t","i","o","n","_","6">>, <<"o","p","t","i","o","n","6">>>>],
    [standard |-> "choices",
     variations |-> <<<<"c","h","o","i","c","e","s">>>>]>>

\* Command.normalize_column_name
NormalizeColumnName(col) ==
    LET stripped == Strip(Lower(col))
    IN  [i \in 1..Len(stripped) |-> IF stripped[i] = " " THEN "_" ELSE stripped[i]]

\* normalized_fieldnames: of the columns with one normalized name the last one
ColumnNamed(header, name) ==
    LET hits == {i \in DOMAIN header : NormalizeColumnName(header[i]) = name}
    IN  IF hits = {} THEN {} ELSE {header[CHOOSE i \in hits : \A j \in hits : j <= i]}

\* the first variation of a mapping that names a column of the header
RECURSIVE FirstVariation(_, _, _)
FirstVariation(header, variations, i) ==
    IF i > Len(variations) THEN {}
    ELSE IF ColumnNamed(header, variations[i]) # {} THEN ColumnNamed(header, variations[i])
    ELSE FirstVariation(header, variations, i + 1)

\* column_map: standard name -> column of the file
ColumnMap(header) ==
    LET found == {i \in DOMAIN ColumnMappings :
                     FirstVariation(header, ColumnMappings[i].variations, 1) # {}}
    IN  [k \in {ColumnMappings[i].standard : i \in found} |->
            LET i == CHOOSE j \in found : ColumnMappings[j].standard = k
            IN  CHOOSE col \in FirstVariation(header, ColumnMappings[i].variations, 1) : TRUE]

HasChoiceColumns(column_map) ==
    \E i \in DOMAIN ChoiceKeys : ChoiceKeys[i] \in DOMAIN column_map

\* a variant that accepts a header without a choice source
HeaderErrorIgnoresChoices(header, column_map) ==
    IF header = <<>> THEN "CSV file has no headers"
    ELSE IF "exam" \notin DOMAIN column_map \/ "question_text" \notin DOMAIN column_map
    THEN "Missing required columns"
    ELSE ""

\* the file-level error of the header, or "" when the rows can be processed
HeaderError(header, column_map) ==
    IF header = <<>> THEN "CSV file has no headers"
    ELSE IF "exam" \notin DOMAIN column_map \/ "question_text" \notin DOMAIN column_map
    THEN "Missing required columns"
    ELSE IF ~(HasChoiceColumns(column_map) \/ "choices" \in DOMAIN column_map)
    THEN "No choice columns found"
    ELSE ""

\* a cell as mapped_row holds it: outer brackets and quotes removed
Wrapped(value, open, close) ==
    value # <<>> /\ Head(value) = open /\ value[Len(value)] = close
Unwrap(value) == Strip(SubSeq(value, 2, Len(value) - 1))
CleanValue(cell) ==
    LET v1 == Strip(cell)
        v2 == IF Wrapped(v1, "[", "]") THEN Unwrap(v1) ELSE v1
    IN  IF Wrapped(v2, "\"", "\"") THEN Unwrap(v2) ELSE v2

BracketFreeFields ==
    {"question_text", "explanation", "category", "exam", "topic", "correct_answer"}
        \cup {ChoiceKeys[i] : i \in DOMAIN ChoiceKeys}

\* mapped_row of a row of the reader
MappedRow(row, column_map) ==
    [k \in DOMAIN column_map |->
        LET value == CleanValue(Get(row, column_map[k], <<>>))
        IN  IF k \in BracketFreeFields THEN RemoveAllBrackets(value) ELSE value]

\* The loop over the rows, inside transaction.atomic(): every row's exception
\* is caught inside the block.  rows are the rows of the reader, each with
\* the values process_row computes from its mapped_row;
\* run = [db, errors, processed].
\* the run after a row numbered row_num with the result r
Recorded(run, r, row_num) ==
    [db |-> r.db,
     errors |-> IF r.ok THEN run.errors
                ELSE Append(run.errors, [row_num |-> row_num, error |-> r.error]),
     processed |-> IF r.ok THEN run.processed + 1 ELSE run.processed]

RECURSIVE ProcessRows(_, _, _)
ProcessRows(run, rows, i) ==
    IF i > Len(rows) THEN run
    ELSE IF rows[i].empty THEN ProcessRows(run, rows, i + 1)
    ELSE ProcessRows(Recorded(run, ProcessRow(run.db, rows[i].values), i + 1), rows, i + 1)

\* ------------------------------------------------------------------------
\* The files of the inbox, as csv.DictReader reads them
\* ------------------------------------------------------------------------
PlainHeader == <<<<"C","a","t","e","g","o","r","y">>, <<"E","x","a","m">>, <<"Q","u","e","s","t","i","o","n">>, <<"C","h","o","i","c","e"," ","1">>, <<"C","h","o","i","c","e"," ","2">>, <<"T","y","p","e">>, <<"A","n","s","w","e","r">>>>

FileNames ==
    {"good.csv", "bad.csv", "noexam.csv", "nochoice.csv", "multi.csv",
     "noexamcol.csv", "noquestioncol.csv", "topic.csv"}

\* csv.DictReader: each row as a mapping from the columns of the header
DictReader(header, rows) ==
    [header |-> header,
     rows |-> [i \in DOMAIN rows |->
                 [col \in {header[j] : j \in DOMAIN header} |->
                     rows[i][CHOOSE j \in DOMAIN header : header[j] = col]]]]

\* good.csv: the scenario of the specification, one row, the second choice
\*   correct
\* bad.csv: a first row that imports, a second whose correct_answer matches
\*   nothing, a third that imports
\* noexam.csv: a row with no exam name after a category the database does
\*   not hold
\* nochoice.csv: no choice_N column and no choices column
\* multi.csv: new choices for the seeded question of type multiple
\* noexamcol.csv: no exam column
\* noquestioncol.csv: no question_text column
\* topic.csv: a question of a topic, in an exam of the default category
FileContent(f) ==
    CASE f = "good.csv" ->
           DictReader(PlainHeader, << <<<<"M">>, <<"B">>, <<"2","+","2">>, <<"3">>, <<"4">>, <<>>, <<"4">>>> >>)
      [] f = "bad.csv" ->
           DictReader(PlainHeader,
                      << <<<<"M">>, <<"B">>, <<"1","+","1">>, <<"2">>, <<"3">>, <<>>, <<"2">>>>,
                         <<<<"M">>, <<"C">>, <<"2","+","2">>, <<"[","3","]">>, <<"5">>, <<"m","u","l","t","i","p","l","e">>, <<"9">>>>,
                         <<<<"M">>, <<"B">>, <<"o","d","d">>, <<"1">>, <<"2">>, <<"M","u","l","t","i","p","l","e">>, <<"1","|","2">>>> >>)
      [] f = "noexam.csv" ->
           DictReader(PlainHeader, << <<<<"N">>, <<" ">>, <<"2","+","2">>, <<"3">>, <<"4">>, <<>>, <<"4">>>> >>)
      [] f = "nochoice.csv" ->
           DictReader(<<<<"e","x","a","m">>, <<"q">>, <<"a","n","s","w","e","r">>>>,
                      << <<<<"B">>, <<"2","+","2">>, <<"4">>>> >>)
      [] f = "multi.csv" ->
           DictReader(PlainHeader, << <<<<"M">>, <<"B">>, <<"o","d","d">>, <<"1">>, <<"2">>, <<"m","u","l","t","i","p","l","e">>, <<"1","|","2">>>> >>)
      [] f = "noexamcol.csv" ->
           DictReader(<<<<"q">>, <<"c","h","o","i","c","e","1">>, <<"c","h","o","i","c","e","s">>, <<"a","n","s","w","e","r">>>>,
                      << <<<<"2","+","2">>, <<"4">>, <<"3","|","4">>, <<"4">>>> >>)
      [] f = "noquestioncol.csv" ->
           DictReader(<<<<"e","x","a","m">>, <<"c","h","o","i","c","e","1">>, <<"a","n","s","w","e","r">>>>,
                      << <<<<"B">>, <<"4">>, <<"4">>>> >>)
      [] f = "topic.csv" ->
           DictReader(<<<<"e","x","a","m">>, <<"t","o","p","i","c">>, <<"q">>, <<"c","h","o","i","c","e","1">>, <<"a","n","s","w","e","r">>>>,
                      << <<<<"C">>, <<"T">>, <<"1","+","1">>, <<"2">>, <<"2">>>> >>)

\* what process_csv_file derives from a file alone: the header's error and
\* each row with the values process_row computes from its mapped_row
ParsedRows(rows, column_map, has_choice_columns) ==
    [i \in DOMAIN rows |->
        [empty |-> \A col \in DOMAIN rows[i] : rows[i][col] = <<>>,
         values |-> RowValues(MappedRow(rows[i], column_map), has_choice_columns)]]

ParsedWith(content, column_map) ==
    [header_error |-> HeaderError(content.header, column_map),
     rows |-> ParsedRows(content.rows, column_map, HasChoiceColumns(column_map))]

Parsed ==
    [f \in FileNames |-> ParsedWith(FileContent(f), ColumnMap(FileContent(f).header))]

\* the rows of a file with a good header, and the header's error otherwise
ImportParsed(parsed, db) ==
    IF parsed.header_error # ""
    THEN [db |-> db, errors |-> <<[row_num |-> 0, error |-> parsed.header_error]>>,
          processed |-> 0]
    ELSE ProcessRows([db |-> db, errors |-> <<>>, processed |-> 0], parsed.rows, 1)

\* process_csv_file on file f against the database db: the database it
\* leaves and the errors it collects
ImportFile(f, db) == ImportParsed(Parsed[f], db)

\* a variant that moves every file to the processed folder
MoveFileAlwaysProcessed(f, errors) ==
    [files EXCEPT !.inbox = @ \ {f}, !.processed = @ \cup {f}]

\* csv_file.rename(dest), after the log is written and dest removed
MoveFile(f, errors) ==
    IF errors # <<>>
    THEN [files EXCEPT !.inbox = @ \ {f}, !.failed = @ \cup {f},
                       !.logs = Put(@, f, errors)]
    ELSE [files EXCEPT !.inbox = @ \ {f}, !.processed = @ \cup {f}]

ProcessCsvFile(f) ==
    /\ f \in files.inbox
    /\ \E run \in {ImportFile(f, Database)} :
           /\ categories' = run.db.categories
           /\ exams' = run.db.exams
           /\ topics' = run.db.topics
           /\ questions' = run.db.questions
           /\ choices' = run.db.choices
           /\ answers' = run.db.answers
           /\ seq' = run.db.seq
           /\ files' = MoveFile(f, run.errors)
           /\ response' = Reply("process_csv_file", "importer", 0, None,
                                IF run.errors # <<>> THEN "failed" ELSE "processed")
    /\ UNCHANGED <<now, sessions, profiles, ai_calls, importers, bookmarks>>

\* ------------------------------------------------------------------------
\* process_row on one mapped row: the rows tried have choice_N columns with
\* up to MaxChoices short texts, a correct_answer, a question type and the
\* text of a question the database holds or of a new one
\* ------------------------------------------------------------------------
RowInputs ==
    [question_text : {<<"2","+","2">>, <<"q">>},
     question_type : {<<"s","i","n","g","l","e">>, <<"m","u","l","t","i","p","l","e">>, <<"t","r","u","e","_","f","a","l","s","e">>},
     choices : UNION {[1..n -> {<<"1">>, <<"2">>, <<"1","2">>, <<"a">>, <<"A","b">>}] : n \in 1..MaxChoices},
     correct_answer : {<<>>, <<"2">>, <<" ","a">>, <<"b">>, <<"+","2">>, <<"1","|","2">>, <<"1",",","2">>, <<"a","|","1">>, <<"3">>, <<"x">>, <<"7","|","8">>, <<"1","2","a">>, <<"1",".","0">>}]

\* the mapped_row of the input r
MappedRowOf(r) ==
    [k \in {"category", "exam", "question_text", "question_type", "correct_answer"}
           \cup {ChoiceKeys[i] : i \in 1..Len(r.choices)} |->
        CASE k = "category" -> <<"M">>
          [] k = "exam" -> <<"B">>
          [] k = "question_text" -> r.question_text
          [] k = "question_type" -> r.question_type
          [] k = "correct_answer" -> r.correct_answer
          [] OTHER -> r.choices[CHOOSE i \in 1..Len(r.choices) : ChoiceKeys[i] = k]]

\* process_row(mapped_row, row_num, has_choice_columns=True) of the command
\* cmd as process_csv_file or process_excel_file calls it, with the except
\* branch that records the error; the invocation keeps the row. On the rows
\* of RowInputs the two commands differ in correct_indices alone.
ImportRow(cmd, r) ==
    /\ DOMAIN importers = {}
    /\ importers' = 1 :> [command |-> cmd, row |-> r]
    /\ \E v \in {RowValues(MappedRowOf(r), TRUE)} :
       \E res \in {ProcessRow(Database,
                              IF cmd = "import_questions_excel"
                              THEN [v EXCEPT !.correct_indices =
                                       ExcelCorrectIndices(v.choices_list,
                                                           RemoveAllBrackets(Strip(r.correct_answer)),
                                                           v.question_type)]
                              ELSE v)} :
           /\ categories' = res.db.categories
           /\ exams' = res.db.exams
           /\ topics' = res.db.topics
           /\ questions' = res.db.questions
           /\ choices' = res.db.choices
           /\ answers' = res.db.answers
           /\ seq' = res.db.seq
           /\ response' = Reply("process_row", "importer", IF res.ok THEN 0 ELSE 1, None,
                                res.error)
    /\ UNCHANGED <<now, sessions, profiles, files, ai_calls, bookmarks>>

\* ------------------------------------------------------------------------
\* An invocation of import_questions_csv, step by step: it lists the inbox,
\* then for each listed file applies the rows and moves the file
\* ------------------------------------------------------------------------
\* a variant that lists only the files no other invocation has listed
ImporterStartSkipsListed(i) ==
    /\ i \notin DOMAIN importers /\ files.inbox # {}
    /\ importers' = Put(importers, i,
                        [todo |-> files.inbox \ UNION {importers[j].todo \cup {importers[j].file} :
                                                          j \in DOMAIN importers},
                         file |-> "", errors |-> <<>>])
    /\ UNCHANGED <<now, exams, questions, choices, sessions, answers, profiles, seq, categories, topics, files, response, ai_calls, bookmarks>>

\* Command.handle: csv_files = list(inbox_path.glob('*.csv'))
ImporterStart(i) ==
    /\ i \notin DOMAIN importers /\ files.inbox # {}
    /\ importers' = Put(importers, i, [todo |-> files.inbox, file |-> "", errors |-> <<>>])
    /\ UNCHANGED <<now, exams, questions, choices, sessions, answers, profiles, seq, categories, topics, files, response, ai_calls, bookmarks>>

\* process_csv_file of invocation i on a listed file f, up to the end of the
\* atomic block. When the file is gone, open raises, the except branch
\* writes the log, and its rename raises out of handle.
ImporterRows(i, f) ==
    /\ i \in DOMAIN importers /\ importers[i].file = "" /\ f \in importers[i].todo
    /\ \E run \in {IF f \in files.inbox THEN ImportFile(f, Database)
                   ELSE [db |-> Database, processed |-> 0,
                         errors |-> <<[row_num |-> 0, error |-> "No such file or directory"]>>]} :
           /\ categories' = run.db.categories
           /\ exams' = run.db.exams
           /\ topics' = run.db.topics
           /\ questions' = run.db.questions
           /\ choices' = run.db.choices
           /\ answers' = run.db.answers
           /\ seq' = run.db.seq
           /\ IF f \in files.inbox
              THEN /\ importers' = [importers EXCEPT ![i] =
                                       [todo |-> @.todo \ {f}, file |-> f, errors |-> run.errors]]
                   /\ UNCHANGED <<files, response>>
              ELSE /\ importers' = Drop(importers, {i})
                   /\ files' = [files EXCEPT !.logs = Put(@, f, run.errors)]
                   /\ response' = Reply("import_questions_csv", "importer", 1, None, "open failed")
    /\ UNCHANGED <<now, sessions, profiles, ai_calls, bookmarks>>

\* process_csv_file of invocation i from the closing of the file on: the
\* log and csv_file.rename. When the file is gone, rename raises, the except
\* branch writes the log, and its rename raises out of handle.
ImporterMove(i) ==
    /\ i \in DOMAIN importers /\ importers[i].file # ""
    /\ IF importers[i].file \in files.inbox
       THEN /\ files' = MoveFile(importers[i].file, importers[i].errors)
            /\ importers' = IF importers[i].todo = {} THEN Drop(importers, {i})
                            ELSE [importers EXCEPT ![i].file = "", ![i].errors = <<>>]
            /\ response' = Reply("import_questions_csv", "importer", 0, None,
                                 IF importers[i].errors # <<>> THEN "failed" ELSE "processed")
       ELSE /\ files' = [files EXCEPT !.logs =
                            Put(@, importers[i].file,
                                <<[row_num |-> 0, error |-> "No such file or directory"]>>)]
            /\ importers' = Drop(importers, {i})
            /\ response' = Reply("import_questions_csv", "importer", 1, None, "rename failed")
    /\ UNCHANGED <<now, exams, questions, choices, sessions, answers, profiles, seq, categories, topics, ai_calls, bookmarks>>

\* ------------------------------------------------------------------------
\* Initial states: a database holding one exam with two questions
\* ------------------------------------------------------------------------
Question(exam, text, type) ==
    [exam |-> exam, topic |-> None, question_text |-> text, question_type |-> type,
     difficulty |-> "medium", explanation |-> <<>>, points |-> 1, order |-> 0,
     is_active |-> TRUE]

Choice(question, text, correct, order) ==
    [question |-> question, choice_text |-> text, is_correct |-> correct, order |-> order]

SeedExams ==
    1 :> [category |-> 1, name |-> <<"B">>, duration_minutes |-> 1,
          total_questions |-> DefaultTotalQuestions,
          passing_score |-> DefaultPassingScore, is_active |-> TRUE]

SeedQuestions ==
    (1 :> Question(1, <<"2","+","2">>, "single"))
        @@ (2 :> Question(1, <<"o","d","d">>, "multiple"))

SeedChoices ==
    (1 :> Choice(1, <<"3">>, FALSE, 0)) @@ (2 :> Choice(1, <<"4">>, TRUE, 1))
        @@ (3 :> Choice(2, <<"1">>, TRUE, 0)) @@ (4 :> Choice(2, <<"3">>, TRUE, 1))
        @@ (5 :> Choice(2, <<"2">>, FALSE, 2))

NoRows == [x \in {} |-> 0]

\* alice has started the exam at instant 0
OneSession ==
    1 :> [user |-> "alice", exam |-> 1, started_at |-> 0, completed_at |-> None,
          is_completed |-> FALSE, score |-> ZeroScore, total_questions |-> 0,
          correct_answers |-> 0, time_taken_seconds |-> None,
          tokens_granted |-> FALSE, is_paused |-> FALSE, paused_at |-> None,
          total_paused_seconds |-> 0]

InitWith(inbox, started) ==
    /\ now = 0
    /\ categories = 1 :> [name |-> <<"M">>]
    /\ exams = SeedExams
    /\ topics = NoRows
    /\ questions = SeedQuestions
    /\ choices = SeedChoices
    /\ sessions = started
    /\ answers = NoRows
    \* create_user_profile: the profile of a user created on day 0
    /\ profiles = [u \in Users |-> [tokens |-> SignupTokens, subscription_plan |-> "basic",
                                    last_token_grant_date |-> 0]]
    \* the next id of each table
    /\ seq = [category |-> 2, exam |-> 2, topic |-> 1, question |-> 3, choice |-> 6,
              session |-> Cardinality(DOMAIN started) + 1, answer |-> 1]
    /\ files = [inbox |-> inbox, processed |-> {}, failed |-> {}, logs |-> NoRows]
    /\ response = Reply("", "", 0, None, "")
    /\ ai_calls = NoRows
    /\ importers = NoRows
    /\ bookmarks = {}

\* ------------------------------------------------------------------------
\* Spec: the life of quiz sessions
\* ------------------------------------------------------------------------
Init == InitWith({}, NoRows)

\* the requests of one user, alice, with and without a question and a choice
Next ==
    \/ \E u \in {"alice"}, e \in ExamIds \cup {0} : QuizStart(u, e)
    \/ \E u \in {"alice"}, e \in ExamIds \cup {0} : RestCreate(u, e)
    \/ \E u \in {"alice"}, s \in SessionInputs : QuizQuestion(u, s)
    \/ \E m \in Methods, u \in {"alice"}, s \in SessionInputs, q \in {1, None},
          cids \in {{}, {2}} : QuizSubmitAnswer(m, u, s, q, cids)
    \/ \E u \in {"alice"}, s \in SessionInputs, q \in {1, None},
          cids \in {{}, {2}} : RestSubmitAnswer(u, s, q, cids)
    \/ \E m \in Methods, u \in {"alice"}, s \in SessionInputs : PauseQuiz(m, u, s)
    \/ \E m \in Methods, u \in {"alice"}, s \in SessionInputs : ResumeQuiz(m, u, s)
    \/ \E u \in {"alice"}, s \in SessionInputs : QuizResult(u, s)
    \/ \E u \in {"alice"}, s \in SessionInputs : RestComplete(u, s)
    \/ \E u \in {"alice"}, s \in SessionInputs : RestResults(u, s)

Spec == Init /\ [][Next]_vars

\* ------------------------------------------------------------------------
\* SpecAnswer: answers to the questions of one session, while the
\* administrator and the importer change the questions
\* ------------------------------------------------------------------------
\* the choice sets a request may send for question q: any choices of q, and
\* sets holding an id that is no choice of q
ChoiceSetsFor(q) ==
    IF q \in QuestionIds
    THEN SUBSET ChoicesOf(q) \cup {{0}, ChoicesOf(q) \cup {0}}
    ELSE {{}, {0}}

NextAnswer ==
    \/ \E q \in QuestionInputs :
          \E cids \in ChoiceSetsFor(q) : QuizSubmitAnswer("POST", "alice", 1, q, cids)
    \/ QuizSubmitAnswer("GET", "alice", 1, None, {})
    \/ \E q \in QuestionInputs :
          \E cids \in ChoiceSetsFor(q) : RestSubmitAnswer("alice", 1, q, cids)
    \/ \E c \in ChoicesOf(1), b \in BOOLEAN : AdminSetChoiceCorrect(c, b)
    \/ \E t \in {"single", "true_false"} : AdminSetQuestionType(1, t)
    \/ \E f \in FileNames : ProcessCsvFile(f)

SpecAnswer == InitWith({"multi.csv"}, OneSession) /\ [][NextAnswer]_vars

\* ------------------------------------------------------------------------
\* SpecScore: one session is answered, completed and viewed while the
\* administrator activates and deactivates questions and an import adds one
\* ------------------------------------------------------------------------
NextScore ==
    \/ \E q \in QuestionIds : \E c \in ChoicesOf(q) :
          RestSubmitAnswer("alice", 1, q, {c})
    \/ \E q \in QuestionIds, b \in BOOLEAN : AdminSetQuestionActive(q, b)
    \/ QuizResult("alice", 1)
    \/ RestComplete("alice", 1)
    \/ RestResults("alice", 1)
    \/ \E f \in FileNames : ProcessCsvFile(f)

SpecScore == InitWith({"bad.csv"}, OneSession) /\ [][NextScore]_vars

\* ------------------------------------------------------------------------
\* SpecTimer: the clock runs while one session is paused, resumed, viewed
\* and completed
\* ------------------------------------------------------------------------
\* the length of the seeded exam, in ticks
ExamTicks == SeedExams[1].duration_minutes * SecondsPerMinute * TicksPerSec

NextTimer ==
    \* the instants at which requests arrive: the first ticks of the session
    \* and the ticks around the end of the exam
    \/ Tick((0..TimerSlack) \cup ((ExamTicks - TimerSlack)..(ExamTicks + TimerSlack)))
    \/ PauseQuiz("POST", "alice", 1)
    \/ ResumeQuiz("POST", "alice", 1)
    \/ QuizQuestion("alice", 1)
    \/ RestComplete("alice", 1)
    \/ \E m \in {0, 1} : AdminSetExamDuration(1, m)

SpecTimer == InitWith({}, OneSession) /\ [][NextTimer]_vars

\* ------------------------------------------------------------------------
\* SpecTokens: users register and open the dashboard and the profile page,
\* and the daily command runs, around two midnights
\* ------------------------------------------------------------------------
NextTokens ==
    \* the last tick of day 0, the first of day 1 and the first of day 2
    \/ Tick({SecondsPerDay * TicksPerSec - 1, SecondsPerDay * TicksPerSec,
             2 * SecondsPerDay * TicksPerSec})
    \/ \E u \in Users \cup {"carol"} : Register(u)
    \/ \E u \in Users \cup {"carol"} : Dashboard(u)
    \/ \E u \in Users \cup {"carol"} : Profile(u)
    \/ GrantDailyTokensCommand

SpecTokens == Init /\ [][NextTokens]_vars

\* ------------------------------------------------------------------------
\* SpecAi: two requests to the AI assistant at a time, by the owner of
\* session 1 and by another user, while the administrator sets balances
\* ------------------------------------------------------------------------
NextAi ==
    \* the requests of users whose balance is at most MaxBalance
    \/ \E r \in 1..2, m \in Methods, u \in Users, message \in {"", "why"},
          s \in {0, 1}, q \in {0, 1, 3}, configured \in BOOLEAN :
          /\ profiles[u].tokens <= MaxBalance
          /\ AiAssistant(r, m, u, message, s, q, configured)
    \/ \E r \in 1..2, ok \in BOOLEAN : AiAssistantReturn(r, ok)
    \/ \E u \in Users, n \in 0..MaxBalance : AdminSetTokens(u, n)

SpecAi == InitWith({}, OneSession) /\ [][NextAi]_vars

\* ------------------------------------------------------------------------
\* SpecOwner: alice and bob send every request on a session to the session
\* of alice; the assistant's external call fails
\* ------------------------------------------------------------------------
NextOwner ==
    \/ \E u \in Users, s \in SessionInputs : QuizQuestion(u, s)
    \/ \E m \in Methods, u \in Users, s \in SessionInputs, q \in {1, None},
          cids \in {{}, {2}} : QuizSubmitAnswer(m, u, s, q, cids)
    \/ \E u \in Users, s \in SessionInputs, q \in {1, None},
          cids \in {{}, {2}} : RestSubmitAnswer(u, s, q, cids)
    \/ \E m \in Methods, u \in Users, s \in SessionInputs : PauseQuiz(m, u, s)
    \/ \E m \in Methods, u \in Users, s \in SessionInputs : ResumeQuiz(m, u, s)
    \/ \E u \in Users, s \in SessionInputs : QuizResult(u, s)
    \/ \E u \in Users, s \in SessionInputs : RestRetrieve(u, s)
    \/ \E u \in Users, s \in SessionInputs : RestComplete(u, s)
    \/ \E u \in Users, s \in SessionInputs : RestResults(u, s)
    \/ \E m \in Methods, u \in Users, message \in {"", "why"}, s \in {0, 1}, q \in {0, 1},
          configured \in BOOLEAN : AiAssistant(1, m, u, message, s, q, configured)
    \/ AiAssistantReturn(1, FALSE)
    \/ Tick({4})

SpecOwner == InitWith({}, OneSession) /\ [][NextOwner]_vars

\* ------------------------------------------------------------------------
\* SpecDelete: rows of every table are created and the administrator
\* deletes a category, an exam, a topic or a question
\* ------------------------------------------------------------------------
NextDelete ==
    \/ ProcessCsvFile("topic.csv")
    \/ \E e \in ExamIds : QuizStart("bob", e)
    \/ \E s \in SessionIds, q \in QuestionIds :
          \E c \in {d \in ChoicesOf(q) : \A x \in ChoicesOf(q) : d <= x} :
              RestSubmitAnswer(sessions[s].user, s, q, {c})
    \/ \E m \in Methods, q \in QuestionIds : ToggleBookmark(m, "bob", q)
    \/ \E c \in DOMAIN categories : AdminDelete({c}, {}, {}, {})
    \/ \E e \in ExamIds : AdminDelete({}, {e}, {}, {})
    \/ \E t \in DOMAIN topics : AdminDelete({}, {}, {t}, {})
    \/ \E q \in QuestionIds : AdminDelete({}, {}, {}, {q})

SpecDelete == InitWith({"topic.csv"}, OneSession) /\ [][NextDelete]_vars

\* ------------------------------------------------------------------------
\* SpecRow: process_row of either command on one row of RowInputs
\* ------------------------------------------------------------------------
NextRow ==
    \E cmd \in {"import_questions_csv", "import_questions_excel"}, r \in RowInputs :
        ImportRow(cmd, r)

SpecRow == InitWith({}, OneSession) /\ [][NextRow]_vars

\* ------------------------------------------------------------------------
\* SpecRace: two invocations of the importer on one inbox
\* ------------------------------------------------------------------------
NextRace ==
    \/ \E i \in 1..2 : ImporterStart(i)
    \/ \E i \in 1..2, f \in FileNames : ImporterRows(i, f)
    \/ \E i \in 1..2 : ImporterMove(i)

SpecRace == InitWith({"good.csv", "bad.csv"}, OneSession) /\ [][NextRace]_vars

\* ------------------------------------------------------------------------
\* SpecImport: the importer takes the files of the inbox in any order while
\* one session answers the questions
\* ------------------------------------------------------------------------
NextImport ==
    \/ \E f \in FileNames : ProcessCsvFile(f)
    \/ \E q \in QuestionIds : \E c \in ChoicesOf(q) :
          RestSubmitAnswer("alice", 1, q, {c})

SpecImport == InitWith(FileNames \ {"topic.csv"}, OneSession) /\ [][NextImport]_vars

\* this step is an accepted submission by u of the choices cids for question
\* q of session s, through the web view or the REST action
AcceptedSubmission(u, s, q, cids) ==
    /\ SubmitAccepted(u, s, q, cids)
    /\ \/ QuizSubmitAnswer("POST", u, s, q, cids)
       \/ RestSubmitAnswer(u, s, q, cids)

\* the accepted submissions that can end with the reply r: the reply's user
\* and session, with every question and the choice sets a request may send
SubmissionInputs(r) ==
    {x \in UNION {{<<r.user, r.session, q, cids>> : cids \in ChoiceSetsFor(q)} :
                     q \in QuestionIds} :
        SubmitAccepted(x[1], x[2], x[3], x[4])}

\* the step ends a submission with status 200
SubmissionStep ==
    /\ response'.op \in {"quiz_submit_answer", "api_submit_answer"}
    /\ response'.status = 200

\* C2 as stated: in every reachable state, every answer to a question of type
\* 'multiple' has is_correct true if and only if its selected choices are
\* exactly the question's choices marked correct, also after an import has
\* replaced the question's choices.
C2StoredFlagAlwaysCurrent ==
    \A a \in AnswerIds :
        questions[answers[a].question].question_type = "multiple"
            => (answers[a].is_correct
                    <=> answers[a].selected_choices = GetCorrectChoices(answers[a].question))

\* C2: an accepted submission for a question of type 'multiple' leaves the
\* answer with is_correct true if and only if the choices it stored are
\* exactly the question's choices marked correct at that moment (a proper
\* subset or superset gives false); the flag is not recomputed afterwards.
C2MultipleExactAtSubmission ==
    [][SubmissionStep => \A x \in SubmissionInputs(response') :
          (AcceptedSubmission(x[1], x[2], x[3], x[4])
              /\ questions[x[3]].question_type = "multiple")
          => /\ Cardinality(AnswersFor(x[2], x[3])') = 1
             /\ \A a \in AnswersFor(x[2], x[3])' :
                   answers'[a].is_correct
                       <=> answers'[a].selected_choices = GetCorrectChoices(x[3])']_vars

\* a stored answer to the question of type 'multiple' that selects a proper
\* subset of the correct choices and is marked incorrect by the submission
\* that has just been accepted
C2Witness ==
    /\ response.op \in {"quiz_submit_answer", "api_submit_answer"}
    /\ response.status = 200
    /\ AnswersFor(1, 1) = {}
    /\ \E a \in AnswersFor(1, 2) :
          /\ questions[2].question_type = "multiple"
          /\ answers[a].selected_choices # {}
          /\ answers[a].selected_choices \subseteq GetCorrectChoices(2)
          /\ answers[a].selected_choices # GetCorrectChoices(2)
          /\ ~answers[a].is_correct

\* C3: an accepted submission for a question of type 'single' or
\* 'true_false' leaves is_correct true exactly when one choice is stored, the
\* question has one choice marked correct, and they are the same choice; no
\* or several stored choices, or no or several correct choices, give false.
C3SingleExactlyOne ==
    [][SubmissionStep => \A x \in SubmissionInputs(response') :
          (AcceptedSubmission(x[1], x[2], x[3], x[4])
              /\ questions[x[3]].question_type \in {"single", "true_false"})
          => \A a \in AnswersFor(x[2], x[3])' :
                answers'[a].is_correct
                    <=> /\ Cardinality(answers'[a].selected_choices) = 1
                        /\ Cardinality(GetCorrectChoices(x[3])) = 1
                        /\ answers'[a].selected_choices = GetCorrectChoices(x[3])]_vars

\* the question of type 'true_false' has two choices marked correct and the
\* submission just accepted, which selected one of them, is marked incorrect
C3Witness ==
    /\ response.op \in {"quiz_submit_answer", "api_submit_answer"}
    /\ response.status = 200
    /\ AnswersFor(1, 2) = {}
    /\ questions[1].question_type = "true_false"
    /\ Cardinality(GetCorrectChoices(1)) = 2
    /\ \E a \in AnswersFor(1, 1) :
          /\ Cardinality(answers[a].selected_choices) = 1
          /\ ~answers[a].is_correct

\* C4: there is never more than one answer per (session, question), an
\* accepted submission leaves that pair's answer holding exactly the valid
\* choices it sent, and a submission that is not accepted changes no answer.
C4OneAnswerHoldingLatest ==
    /\ [](\A s \in SessionIds, q \in QuestionIds : Cardinality(AnswersFor(s, q)) <= 1)
    /\ [][SubmissionStep => \A x \in SubmissionInputs(response') :
             AcceptedSubmission(x[1], x[2], x[3], x[4])
             => /\ Cardinality(AnswersFor(x[2], x[3])') = 1
                /\ \A a \in AnswersFor(x[2], x[3])' :
                      answers'[a].selected_choices = ValidChoices(x[3], x[4])
                /\ \A a \in AnswerIds \ AnswersFor(x[2], x[3]) :
                      a \in DOMAIN answers' /\ answers'[a] = answers[a]]_vars
    /\ [][(response'.op \in {"quiz_submit_answer", "api_submit_answer"}
              /\ response'.status # 200) => answers' = answers]_vars

\* both questions answered, the first after a second submission replaced the
\* choice it held
C4Witness ==
    /\ response.op \in {"quiz_submit_answer", "api_submit_answer"}
    /\ response.status = 200
    /\ seq.answer = 3
    /\ \E a \in AnswersFor(1, 1) : a = 1 /\ answers[a].selected_choices = {1, 2}
    /\ \E a \in AnswersFor(1, 2) : a = 2 /\ answers[a].selected_choices = {3}

\* C5: a session whose is_completed flag is true keeps the row and the flag
\* through every step of question view, answer submission, pause, resume,
\* complete, result view and quiz start.
C5CompletionIrreversible ==
    [][\A s \in SessionIds :
          sessions[s].is_completed
              => s \in DOMAIN sessions' /\ sessions'[s].is_completed]_vars

\* a completed session on which a later quiz start has answered by opening
\* another session
C5Witness ==
    /\ response.op = "quiz_start"
    /\ response.session = 2
    /\ 1 \in SessionIds /\ sessions[1].is_completed
    /\ 2 \in SessionIds /\ sessions[2].user = sessions[1].user
    /\ sessions[2].exam = sessions[1].exam

\* a step that adds a session row for user u and exam e
SessionAdded(u, e) ==
    \E s \in DOMAIN sessions' \ SessionIds :
        sessions'[s].user = u /\ sessions'[s].exam = e

\* C6 as stated: a session row for a user and an exam is added only when the
\* user has no incomplete session for that exam.
C6NewOnlyWhenNoneIncomplete ==
    [][\A u \in Users, e \in ExamIds :
          SessionAdded(u, e) => IncompleteSessions(u, e) = {}]_vars

\* C6: the web quiz start answers with the latest incomplete session of the
\* user and exam and adds no row when one exists, and adds one fresh row only
\* when none exists; REST create adds one fresh row whenever it answers 201,
\* whether or not an incomplete session exists.
C6WebReusesRestCreates ==
    [][/\ (response'.op = "quiz_start" /\ response'.session = None)
              => sessions' = sessions
       /\ (response'.op = "quiz_start" /\ response'.session # None)
              => LET s == response'.session
                     u == response'.user
                     e == sessions'[s].exam
                 IN  IF IncompleteSessions(u, e) # {}
                     THEN sessions' = sessions /\ s \in LatestOf(IncompleteSessions(u, e))
                     ELSE /\ s \notin SessionIds
                          /\ sessions' = Put(sessions, s, NewSession(u, e))
       /\ (response'.op = "api_create" /\ response'.status = 201)
              => LET s == response'.session
                 IN  /\ s \notin SessionIds
                     /\ DOMAIN sessions' = SessionIds \cup {s}
                     /\ sessions'[s] = NewSession(response'.user, sessions'[s].exam)
                     /\ \A t \in SessionIds : sessions'[t] = sessions[t]
       /\ (response'.op = "api_create" /\ response'.status # 201)
              => sessions' = sessions]_vars

\* the quiz start has answered with a session that already held an answer,
\* and no other session exists
C6Witness ==
    /\ response.op = "quiz_start"
    /\ response.session = 1
    /\ SessionIds = {1}
    /\ ~sessions[1].is_completed
    /\ \E a \in AnswerIds : answers[a].quiz_session = 1

\* C7: on a completed session the question view redirects to the results,
\* and answer submission, pause, resume and REST complete answer 400; each
\* leaves every session row and every answer as it was.
C7CompletedIsReadOnly ==
    [][\A s \in SessionIds :
          (sessions[s].is_completed /\ response'.session = s)
              => /\ response'.op = "quiz_question"
                    => /\ response'.status = 302
                       /\ response'.to = "quiz_result"
                       /\ sessions' = sessions /\ answers' = answers
                 /\ response'.op \in {"quiz_submit_answer", "api_submit_answer",
                                      "pause_quiz", "resume_quiz", "api_complete"}
                    => /\ response'.status = 400
                       /\ sessions' = sessions /\ answers' = answers]_vars

\* an answer submission refused with 400 on a completed session that holds
\* an answer
C7Witness ==
    /\ response.op \in {"quiz_submit_answer", "api_submit_answer"}
    /\ response.status = 400
    /\ response.session \in SessionIds
    /\ sessions[response.session].is_completed
    /\ \E a \in AnswerIds : answers[a].quiz_session = response.session

\* C1 as stated: after each completion (complete_quiz, REST complete, REST
\* results) and after each result view, the session's stored score is the
\* number of its answers marked correct over the number of active questions
\* of its exam, times 100, whatever questions were added or deactivated
\* before.
C1ScoreCurrentAfterResult ==
    (response.op \in {"quiz_result", "api_complete", "api_results"}
        /\ response.status = 200)
    => LET s == response.session
           total == Cardinality(ActiveQuestions(sessions[s].exam))
       IN  total > 0
           => sessions[s].score = ScoreValue(Cardinality(CorrectAnswersOf(s)), total)

\* the seconds, as a count of ticks, that the claim subtracts from the exam
\* duration: wall-clock time since the start, less the accumulated paused
\* seconds, less the pause in progress
CountedTicks(s) ==
    (now - sessions[s].started_at)
        - sessions[s].total_paused_seconds * TicksPerSec
        - (IF sessions[s].is_paused THEN now - sessions[s].paused_at ELSE 0)

\* C8: at every instant get_remaining_time() of an incomplete session is
\* max(0, exam duration - (wall-clock time since start - accumulated paused
\* seconds - pause in progress)), truncated to whole seconds, and of a
\* completed session it is 0.
C8RemainingTimeFormula ==
    \A s \in SessionIds :
        GetRemainingTime(sessions[s]) =
            IF sessions[s].is_completed THEN 0
            ELSE IntSeconds(Max(0, exams[sessions[s].exam].duration_minutes
                                       * SecondsPerMinute * TicksPerSec
                                   - CountedTicks(s)))

\* an incomplete session with an earlier pause accumulated and a pause in
\* progress, read after the pause began and with time left
C8Witness ==
    /\ 1 \in SessionIds /\ ~sessions[1].is_completed
    /\ sessions[1].is_paused /\ now > sessions[1].paused_at + TicksPerSec
    /\ sessions[1].total_paused_seconds >= 1
    /\ GetRemainingTime(sessions[1]) > 0

\* the same session had it never been paused
NeverPaused(row) ==
    [row EXCEPT !.is_paused = FALSE, !.paused_at = None, !.total_paused_seconds = 0]

\* the session is running, and neither its remaining time nor that of the
\* never-paused session is clamped at zero
Unclamped(s) ==
    /\ ~sessions[s].is_completed /\ ~sessions[s].is_paused
    /\ now - sessions[s].started_at
          <= exams[sessions[s].exam].duration_minutes * SecondsPerMinute * TicksPerSec

\* C9 as stated: after pauses of d seconds in all, the remaining time is
\* about d seconds (within one second) less than that of the same session
\* never paused.
C9PauseReducesRemaining ==
    \A s \in SessionIds :
        Unclamped(s)
            => LET paused == GetRemainingTime(sessions[s])
                   baseline == GetRemainingTime(NeverPaused(sessions[s]))
                   d == sessions[s].total_paused_seconds
               IN  /\ paused <= baseline - d + 1
                   /\ paused >= baseline - d - 1

\* C9: resuming a pause that lasted d seconds adds the whole seconds of d to
\* the accumulated paused seconds, and the remaining time of a running
\* session is that of the same session never paused plus the accumulated
\* paused seconds, when neither is clamped.
C9PauseExtendsRemaining ==
    /\ [](\A s \in SessionIds :
            Unclamped(s)
                => GetRemainingTime(sessions[s])
                       = GetRemainingTime(NeverPaused(sessions[s]))
                             + sessions[s].total_paused_seconds)
    /\ [][\A s \in SessionIds :
             (response'.op \in {"resume_quiz", "quiz_question"}
                 /\ response'.status = 200 /\ response'.session = s
                 /\ sessions[s].is_paused)
             => /\ ~sessions'[s].is_paused
                /\ sessions'[s].total_paused_seconds
                      = sessions[s].total_paused_seconds
                            + IntSeconds(now - sessions[s].paused_at)]_vars

\* a session just resumed after a pause of at least a second, read while
\* neither value is clamped
C9Witness ==
    /\ response.op = "resume_quiz" /\ response.status = 200
    /\ Unclamped(1)
    /\ sessions[1].total_paused_seconds >= 1
    /\ GetRemainingTime(NeverPaused(sessions[1])) > 0

\* C10 as stated: an import in which a row raises an error leaves every
\* Category, Exam, Topic, Question and Choice as it was before the file, and
\* puts the file in the failed folder with a non-empty error log.
C10ImportAllOrNothing ==
    [][(response'.op = "process_csv_file" /\ response'.to = "failed")
          => /\ categories' = categories /\ exams' = exams /\ topics' = topics
             /\ questions' = questions /\ choices' = choices
             /\ \A f \in files.inbox \ files'.inbox :
                   /\ f \in files'.failed
                   /\ f \in DOMAIN files'.logs /\ files'.logs[f] # <<>>]_vars

\* ------------------------------------------------------------------------
\* C11: a row that imports and whose (exam, question_text) pair is held by
\* one Question
\* ------------------------------------------------------------------------
\* r is the outcome of process_row on the values v against the database db
UpdatedInPlace(db, v, r) ==
    LET exs == UNION {ExamNamed(db, c, v.exam_name) :
                         c \in CategoryNamed(db, v.category_name)}
        old == UNION {QuestionNamed(db, e, v.question_text) : e \in exs}
    IN  (r.ok /\ Cardinality(old) = 1) =>
            \E q \in old, e \in exs :
                /\ QuestionNamed(r.db, e, v.question_text) = {q}
                /\ DOMAIN r.db.questions = DOMAIN db.questions
                /\ r.db.questions[q].question_type = v.question_type
                /\ \A c \in DOMAIN db.choices :
                      db.choices[c].question = q => c \notin DOMAIN r.db.choices
                /\ Cardinality({c \in DOMAIN r.db.choices : r.db.choices[c].question = q})
                      = Len(v.choices_list)
                /\ \A k \in 1..Len(v.choices_list) :
                      \E c \in DOMAIN r.db.choices :
                          /\ r.db.choices[c].question = q
                          /\ r.db.choices[c].choice_text = v.choices_list[k]
                          /\ r.db.choices[c].order = k - 1
                          /\ Cardinality({d \in DOMAIN r.db.choices :
                                 r.db.choices[d].question = q /\ d < c}) = k - 1

\* C11: importing a row whose (exam, question_text) pair already exists
\* updates that Question in place: no Question is added, the pair is still
\* held by that one Question, the Choices it had are all removed and its
\* Choices are the choices of the row, one per text, in the row's order.
C11UpdateInPlaceReplacesChoices ==
    \A f \in FileNames : \A i \in DOMAIN Parsed[f].rows :
        (Parsed[f].header_error = "" /\ ~Parsed[f].rows[i].empty)
            => UpdatedInPlace(Database, Parsed[f].rows[i].values,
                              ProcessRow(Database, Parsed[f].rows[i].values))

\* multi.csv has been imported over the seeded question 'odd': the question
\* is the same row and its three seeded choices gave way to the row's two
C11Witness ==
    /\ "multi.csv" \in files.processed
    /\ QuestionNamed(Database, 1, <<"o","d","d">>) = {2}
    /\ ChoicesOf(2) \cap DOMAIN SeedChoices = {}
    /\ Cardinality(ChoicesOf(2)) = 2
    /\ \A c \in ChoicesOf(2) : choices[c].is_correct

\* C12: when the importer has processed a file of the inbox, the file has
\* left the inbox and is in exactly one of the folders processed and failed:
\* in processed if and only if neither the header nor a row raised an error,
\* and otherwise in failed with a non-empty error log beside it.
C12MovedToOneFolder ==
    [][\A f \in FileNames :
          (f \in files.inbox /\ f \notin files'.inbox) =>
              /\ (f \in files'.processed) # (f \in files'.failed)
              /\ (f \in files'.processed) <=> (ImportFile(f, Database).errors = <<>>)
              /\ (f \in files'.processed) => (f \notin DOMAIN files'.logs)
              /\ (f \in files'.failed) =>
                    (f \in DOMAIN files'.logs /\ files'.logs[f] # <<>>)]_vars

\* one file has gone to processed and another to failed with its log
C12Witness ==
    /\ "good.csv" \in files.processed /\ "good.csv" \notin files.inbox
    /\ "bad.csv" \in files.failed /\ "bad.csv" \notin files.inbox
    /\ "bad.csv" \in DOMAIN files.logs

\* the files whose header has no exam column, no question-text column, or
\* neither a choice_1..choice_6 column nor a choices column
LackingHeader ==
    {f \in FileNames :
        \/ "exam" \notin DOMAIN ColumnMap(FileContent(f).header)
        \/ "question_text" \notin DOMAIN ColumnMap(FileContent(f).header)
        \/ DOMAIN ColumnMap(FileContent(f).header)
              \cap {"choice_1", "choice_2", "choice_3", "choice_4",
                    "choice_5", "choice_6", "choices"} = {}}

\* C13: a file whose header has no exam column, no question-text column, or
\* no choice source is rejected before any row is processed: every table of
\* the database is as it was, and the file is in the failed folder with a
\* non-empty error log.
C13HeaderRejectedBeforeRows ==
    [][\A f \in LackingHeader :
          (f \in files.inbox /\ f \notin files'.inbox)
          => /\ UNCHANGED <<categories, exams, topics, questions, choices, answers, seq>>
             /\ f \in files'.failed /\ f \notin files'.processed
             /\ f \in DOMAIN files'.logs /\ files'.logs[f] # <<>>]_vars

\* the three files with a lacking header have been rejected, each for its
\* own reason
C13Witness ==
    /\ LackingHeader = {"nochoice.csv", "noexamcol.csv", "noquestioncol.csv"}
    /\ LackingHeader \subseteq files.failed
    /\ files.logs["nochoice.csv"][1].error = "No choice columns found"
    /\ files.logs["noexamcol.csv"][1].error = "Missing required columns"
    /\ files.logs["noquestioncol.csv"][1].error = "Missing required columns"

\* ------------------------------------------------------------------------
\* C14, C15: the daily grant
\* ------------------------------------------------------------------------
\* u's profile after a call of grant_daily_tokens that returns true
Granted(u) ==
    /\ profiles'[u].tokens = profiles[u].tokens + DailyTokens
    /\ profiles'[u].last_token_grant_date = Today
    /\ profiles'[u].subscription_plan = profiles[u].subscription_plan

\* C14 as stated: on every date, also the date the profile was created on,
\* the first call of grant_daily_tokens for a profile returns true and adds
\* 10 tokens. No call precedes the first request of a behaviour, and none for
\* u precedes the request that follows u's registration.
C14FirstCallOfDateGrants ==
    [][\A u \in DOMAIN profiles :
          (/\ response.op = "" \/ (response.op = "register" /\ response.user = u)
           /\ Dashboard(u) \/ Profile(u))
          => (response'.to # "" /\ Granted(u))]_vars

\* C14: a call of grant_daily_tokens from the dashboard, the profile page or
\* the daily command returns true, adds 10 tokens and records the date when
\* the profile's last_token_grant_date is not the date of the call, and
\* returns false and leaves the profile as it is when it is; the recorded
\* date is never after the date of the clock and changes by nothing but a
\* call. So on every date after the one the profile was created on, exactly
\* the first call returns true, and on the date of creation, which the
\* profile is created with, none does.
C14GrantOncePerRecordedDate ==
    /\ [][\A u \in DOMAIN profiles :
            /\ (Dashboard(u) \/ Profile(u)) =>
                  IF profiles[u].last_token_grant_date = Today
                  THEN response'.to = "" /\ profiles'[u] = profiles[u]
                  ELSE response'.to # "" /\ Granted(u)
            /\ GrantDailyTokensCommand =>
                  IF profiles[u].last_token_grant_date = Today
                  THEN profiles'[u] = profiles[u]
                  ELSE Granted(u)
            /\ profiles'[u] # profiles[u] =>
                  \/ GrantDailyTokensCommand
                  \/ (Dashboard(u) \/ Profile(u)) /\ response'.user = u]_vars
    /\ [](\A u \in DOMAIN profiles : profiles[u].last_token_grant_date <= Today)

\* on day 1 alice was granted her 10 tokens by a first call, and the call
\* that followed on the same day returned false
C14Witness ==
    /\ Today = 1
    /\ response.op \in {"dashboard", "profile"} /\ response.user = "alice"
    /\ response.to = ""
    /\ profiles["alice"].tokens = SignupTokens + DailyTokens
    /\ profiles["alice"].last_token_grant_date = 1

\* C15: registering a user creates its one profile, with 100 tokens, the
\* basic plan and the day of registration as last_token_grant_date; a grant
\* is given only on a day after the recorded one, which no step moves back:
\* the first daily grant comes on a day after the day of creation. The
\* users created on day 0 hold their 100 tokens until a grant recorded on a
\* later day.
C15ProfileOnCreationGrantLater ==
    /\ [][\A u \in Users \cup {"carol"} :
            Register(u) =>
                /\ u \notin DOMAIN profiles
                /\ DOMAIN profiles' = DOMAIN profiles \cup {u}
                /\ profiles'[u] = [tokens |-> SignupTokens, subscription_plan |-> "basic",
                                   last_token_grant_date |-> Today]
                /\ \A w \in DOMAIN profiles : profiles'[w] = profiles[w]]_vars
    /\ [][\A u \in DOMAIN profiles :
            /\ profiles'[u].tokens > profiles[u].tokens =>
                  /\ profiles[u].last_token_grant_date < Today
                  /\ profiles'[u].last_token_grant_date = Today
            /\ profiles'[u].last_token_grant_date >= profiles[u].last_token_grant_date]_vars
    /\ [](\A u \in Users :
            profiles[u].tokens = SignupTokens \/ profiles[u].last_token_grant_date > 0)

\* carol registered, and has her first 10 tokens on a later day
C15Witness ==
    /\ "carol" \in DOMAIN profiles
    /\ response.user = "carol" /\ response.to # ""
    /\ profiles["carol"].tokens = SignupTokens + DailyTokens
    /\ profiles["carol"].last_token_grant_date = Today

\* ------------------------------------------------------------------------
\* C16, C17: the bonus for passing
\* ------------------------------------------------------------------------
\* C16: the pass bonus is credited at most once for a session: a user's
\* balance is the 100 tokens of the registration and 50 for each of the
\* user's sessions whose tokens_granted is true, whatever result views,
\* completions and recalculations happened, and tokens_granted, once true,
\* stays true while no view credits tokens for that session again.
C16BonusAtMostOnce ==
    /\ [](\A u \in DOMAIN profiles :
            profiles[u].tokens = SignupTokens + PassBonus *
                Cardinality({s \in SessionIds :
                                sessions[s].user = u /\ sessions[s].tokens_granted}))
    /\ [][\A s \in SessionIds :
            sessions[s].tokens_granted =>
                /\ sessions'[s].tokens_granted
                /\ profiles'[sessions[s].user].tokens
                      = profiles[sessions[s].user].tokens]_vars

\* the bonus of session 1 was credited once, and a later result view has
\* recalculated the score, which is now below the passing score
C16Witness ==
    /\ sessions[1].tokens_granted
    /\ response.op = "quiz_result" /\ response.status = 200
    /\ ~ScoreAtLeast(sessions[1].score, exams[sessions[1].exam].passing_score)
    /\ profiles["alice"].tokens = SignupTokens + PassBonus

\* C17 as stated: whenever the result view runs for a session whose score
\* reaches the exam's passing_score and whose tokens_granted is false, the
\* owner's balance grows by 50 and tokens_granted becomes true, however the
\* session was completed.
C17PassingGrantsBonus ==
    [][\A s \in SessionIds :
          (/\ QuizResult(sessions[s].user, s)
           /\ ~sessions[s].tokens_granted
           /\ ScoreAtLeast(sessions'[s].score, exams[sessions[s].exam].passing_score))
          => /\ sessions'[s].tokens_granted
             /\ profiles'[sessions[s].user].tokens
                   = profiles[sessions[s].user].tokens + PassBonus]_vars

\* ------------------------------------------------------------------------
\* C18, C19: the token of an AI-assistant request
\* ------------------------------------------------------------------------
\* C18: an AI-assistant request takes exactly 1 token from its user's
\* balance if and only if the external call succeeded and the response is
\* returned (status 200); a request answered 405, 400, 403, 500 or 503 before
\* the call, a call that raised, and a deduction that failed change no
\* balance. No balance changes by anything else but the administrator.
C18DeductOnlyOnSuccess ==
    [][/\ \A r \in DOMAIN ai_calls :
            /\ AiAssistantReturn(r, FALSE) =>
                  /\ response'.status = 500 /\ UNCHANGED profiles
            /\ AiAssistantReturn(r, TRUE) =>
                  IF response'.status = 200
                  THEN /\ profiles'[ai_calls[r].user].tokens
                             = profiles[ai_calls[r].user].tokens - TokensPerAiRequest
                       /\ \A w \in DOMAIN profiles \ {ai_calls[r].user} :
                             profiles'[w] = profiles[w]
                  ELSE /\ response'.status = 500 /\ UNCHANGED profiles
       /\ profiles' # profiles =>
            \/ response'.op = "admin"
            \/ /\ response'.op = "ai_assistant" /\ response'.status = 200
               /\ \E r \in DOMAIN ai_calls : AiAssistantReturn(r, TRUE)]_vars

\* a request was answered with the assistant's response and took the last
\* token
C18Witness ==
    /\ response.op = "ai_assistant" /\ response.status = 200
    /\ profiles[response.user].tokens = 0
    /\ ai_calls = NoRows

\* C19: the balance check looks at the stored balance alone, not at the
\* calls in flight: a configured POST request with a message passes it
\* whenever the balance is at least 1, so with a balance of 1 two requests of
\* one user both reach the external call. The deduction checks again: the
\* balance never falls below 0, and the request that returns to a balance
\* of 0 is answered 500 although its call was made.
C19CheckIgnoresCallsInFlight ==
    /\ [][\A r \in 1..2, u \in Users :
            (/\ AiAssistant(r, "POST", u, "why", 0, 0, TRUE)
             /\ profiles[u].tokens >= TokensPerAiRequest)
            => (r \in DOMAIN ai_calls' /\ ai_calls'[r].user = u)]_vars
    /\ [][\A r \in DOMAIN ai_calls :
            (AiAssistantReturn(r, TRUE) /\ profiles[ai_calls[r].user].tokens = 0)
            => (response'.status = 500 /\ UNCHANGED profiles)]_vars
    /\ [](\A u \in DOMAIN profiles : profiles[u].tokens >= 0)

\* with a balance of 1, both requests of alice are at the external call
C19Witness ==
    /\ profiles["alice"].tokens = 1
    /\ DOMAIN ai_calls = {1, 2}
    /\ ai_calls[1].user = "alice" /\ ai_calls[2].user = "alice"

C21OtherUserNotFound ==
    [][\A u \in Users, s \in SessionIds :
          (/\ sessions[s].user # u
           /\ \/ QuizQuestion(u, s)
              \/ \E q \in {1, None}, cids \in {{}, {2}} :
                     \/ QuizSubmitAnswer("POST", u, s, q, cids)
                     \/ RestSubmitAnswer(u, s, q, cids)
              \/ PauseQuiz("POST", u, s)
              \/ ResumeQuiz("POST", u, s)
              \/ QuizResult(u, s)
              \/ RestRetrieve(u, s)
              \/ RestComplete(u, s)
              \/ RestResults(u, s)
              \/ \E q \in {0, 1}, configured \in BOOLEAN :
                     AiAssistant(1, "POST", u, "why", s, q, configured))
          => /\ response'.status = 404
             /\ sessions' = sessions
             /\ answers' = answers]_vars

\* C22: after a category is deleted none of its exams remains, nor any
\* topic, question or session of these exams, nor any choice, answer or
\* bookmark of these questions, nor any answer of these sessions; and in
\* every reachable state every row references existing parents.
C22CategoryDeleteCascades ==
    /\ [][\A c \in DOMAIN categories :
            AdminDelete({c}, {}, {}, {})
            => /\ c \notin DOMAIN categories'
               /\ \A e \in ExamIds :
                      exams[e].category = c
                      => /\ e \notin DOMAIN exams'
                         /\ \A t \in DOMAIN topics :
                                topics[t].exam = e => t \notin DOMAIN topics'
                         /\ \A s \in SessionIds :
                                sessions[s].exam = e
                                => /\ s \notin DOMAIN sessions'
                                   /\ \A a \in AnswerIds :
                                          answers[a].quiz_session = s
                                          => a \notin DOMAIN answers'
                         /\ \A q \in QuestionIds :
                                questions[q].exam = e
                                => /\ q \notin DOMAIN questions'
                                   /\ \A x \in ChoiceIds :
                                          choices[x].question = q
                                          => x \notin DOMAIN choices'
                                   /\ \A a \in AnswerIds :
                                          answers[a].question = q
                                          => a \notin DOMAIN answers'
                                   /\ \A b \in bookmarks : b[2] = q => b \notin bookmarks']_vars
    /\ [](/\ \A e \in ExamIds : exams[e].category \in DOMAIN categories
          /\ \A t \in DOMAIN topics : topics[t].exam \in ExamIds
          /\ \A q \in QuestionIds :
                 /\ questions[q].exam \in ExamIds
                 /\ questions[q].topic \in DOMAIN topics \cup {None}
          /\ \A x \in ChoiceIds : choices[x].question \in QuestionIds
          /\ \A s \in SessionIds : sessions[s].exam \in ExamIds
          /\ \A a \in AnswerIds :
                 /\ answers[a].quiz_session \in SessionIds
                 /\ answers[a].question \in QuestionIds
                 /\ answers[a].selected_choices \subseteq ChoiceIds
          /\ \A b \in bookmarks : b[2] \in QuestionIds)

\* the category of exam B was deleted while another category, with an exam,
\* a topic, a question, a session, an answer and a bookmark, remains; the
\* deleted category had two sessions, an answer and a bookmark
C22Witness ==
    /\ response.op = "admin_delete"
    /\ 1 \notin DOMAIN categories /\ DOMAIN categories # {}
    /\ ExamIds # {} /\ DOMAIN topics # {} /\ QuestionIds # {} /\ ChoiceIds # {}
    /\ seq.session = 3 /\ Cardinality(SessionIds) = 1
    /\ seq.answer = 3 /\ Cardinality(AnswerIds) = 1
    /\ bookmarks # {}

\* C23: when the correct_answer of a row equals, case-insensitively and
\* after trimming, the text of one of its choices, the row imports, the
\* question has the row's choices in the row's order, and exactly the first
\* choice with that text is marked correct.
C23ExactTextMarksFirstChoice ==
    (response.op = "process_row" /\ importers[1].command = "import_questions_csv")
    => \A r \in {importers[1].row} :
          \A hits \in {{i \in 1..Len(r.choices) : Norm(r.choices[i]) = Norm(r.correct_answer)}} :
             hits # {}
             => /\ response.status = 0
                /\ \E q \in QuestionIds :
                      /\ questions[q].exam = 1
                      /\ questions[q].question_text = r.question_text
                      /\ Cardinality(ChoicesOf(q)) = Len(r.choices)
                      /\ \A c \in ChoicesOf(q) :
                            /\ choices[c].order + 1 \in 1..Len(r.choices)
                            /\ choices[c].choice_text = r.choices[choices[c].order + 1]
                            /\ choices[c].is_correct
                                  = (/\ choices[c].order + 1 \in hits
                                     /\ \A i \in hits : choices[c].order + 1 <= i)

\* the row with the choices 2 and 2 and the correct_answer 2 was imported
\* for a new question: the first choice is correct, the second is not
C23Witness ==
    /\ response.op = "process_row" /\ response.status = 0
    /\ importers[1].command = "import_questions_csv"
    /\ importers[1].row.choices = <<<<"2">>, <<"2">>>>
    /\ importers[1].row.correct_answer = <<"2">>
    /\ importers[1].row.question_text = <<"q">>
    /\ \E q \in QuestionIds :
          /\ questions[q].question_text = <<"q">>
          /\ \E c, d \in ChoicesOf(q) :
                /\ choices[c].order = 0 /\ choices[c].is_correct
                /\ choices[d].order = 1 /\ ~choices[d].is_correct

\* C24: the choices a row marks correct are the result of the first of the
\* heuristics exact text, substring containment, answer inside the question
\* text, 1-indexed number (one, comma- or pipe-separated), pipe-separated
\* choice texts that yields an index; the row fails when none yields one.
C24FirstHeuristicThatYields ==
    (response.op = "process_row" /\ importers[1].command = "import_questions_csv")
    => \A r \in {importers[1].row} :
       \A a \in {Strip(r.correct_answer)} :
       \A found \in {IF a = <<>> THEN {}
                     ELSE OrElse(First({i \in 0..(Len(r.choices) - 1) :
                                           Norm(r.choices[i + 1]) = Norm(a)}),
                          OrElse(SubstringMatch(r.choices, a, QuestionTypeOf(r.question_type)),
                          OrElse(InQuestionWith(r.choices, Norm(a), r.question_text),
                          OrElse(NumericOr(Len(r.choices), ParseInt(a), IntList(a, ","),
                                           IntList(a, "|"), {}),
                                 PipeTextMatch(r.choices, a)))))} :
          IF found = {}
          THEN /\ response.status = 1
               /\ response.to = "Could not determine correct answer"
               /\ \A q \in QuestionIds :
                     questions[q].question_text = r.question_text
                     => \A c \in ChoicesOf(q) : choices[c].choice_text \in {<<"3">>, <<"4">>}
          ELSE /\ response.status = 0
               /\ \E q \in QuestionIds :
                     /\ questions[q].question_text = r.question_text
                     /\ {choices[c].order : c \in {d \in ChoicesOf(q) : choices[d].is_correct}}
                           = found

\* the row with the choices a and Ab and the correct_answer 1|2 was imported:
\* no text matches, the numbers separated by pipes mark both choices
C24Witness ==
    /\ response.op = "process_row"
    /\ importers[1].command = "import_questions_csv"
    /\ importers[1].row.choices = <<<<"a">>, <<"A","b">>>>
    /\ importers[1].row.correct_answer = <<"1","|","2">>
    /\ importers[1].row.question_text = <<"q">>
    /\ \E q \in QuestionIds :
          /\ questions[q].question_text = <<"q">>
          /\ Cardinality(ChoicesOf(q)) = 2
          /\ \A c \in ChoicesOf(q) : choices[c].is_correct

\* C25: on every mapped row the Excel importer's process_row marks the
\* choices the CSV importer's process_row marks, and fails when it fails.
C25ExcelMarksAsCsv ==
    (response.op = "process_row" /\ importers[1].command = "import_questions_excel")
    => \A r \in {importers[1].row} :
       \A found \in {CorrectIndices(r.choices, Strip(r.correct_answer), r.question_text,
                                    QuestionTypeOf(r.question_type))} :
          IF found = {}
          THEN response.status = 1
          ELSE /\ response.status = 0
               /\ \E q \in QuestionIds :
                     /\ questions[q].question_text = r.question_text
                     /\ {choices[c].order : c \in {d \in ChoicesOf(q) : choices[d].is_correct}}
                           = found

\* C26: in every reachable state a completed session is not paused.
C26CompletedIsNotPaused ==
    \A s \in SessionIds : sessions[s].is_completed => ~sessions[s].is_paused

\* C27: in every reachable state a session that is not completed is paused
\* exactly when its paused_at is set; an accepted pause sets both, a resume
\* (explicit or by viewing a question) clears both and adds the whole seconds
\* of the pause to total_paused_seconds, and a rejected pause or resume
\* leaves the session as it was.
C27PausedIffPausedAt ==
    /\ [](\A s \in SessionIds :
            ~sessions[s].is_completed
                => (sessions[s].is_paused <=> sessions[s].paused_at # None))
    /\ [][\A s \in SessionIds :
             /\ (PauseQuiz("POST", "alice", s) /\ response'.status = 200)
                    => /\ ~sessions[s].is_paused
                       /\ sessions'[s] = [sessions[s] EXCEPT !.is_paused = TRUE,
                                                             !.paused_at = now]
             /\ ((ResumeQuiz("POST", "alice", s) /\ response'.status = 200)
                     \/ (QuizQuestion("alice", s) /\ sessions[s].is_paused
                            /\ response'.status = 200))
                    => /\ sessions[s].is_paused
                       /\ sessions'[s] =
                             [sessions[s] EXCEPT
                                 !.is_paused = FALSE,
                                 !.paused_at = None,
                                 !.total_paused_seconds =
                                     @ + IntSeconds(now - sessions[s].paused_at)]
             /\ ((PauseQuiz("POST", "alice", s) \/ ResumeQuiz("POST", "alice", s))
                     /\ response'.status # 200)
                    => sessions' = sessions]_vars

\* a session resumed after a pause that lasted at least a second
C27Witness ==
    /\ response.op = "resume_quiz" /\ response.status = 200
    /\ ~sessions[1].is_completed /\ ~sessions[1].is_paused
    /\ sessions[1].paused_at = None
    /\ sessions[1].total_paused_seconds >= 1

\* C28: while a session stays paused (and incomplete, its exam unchanged)
\* get_remaining_time() returns the same value at every later instant, and
\* the value of every incomplete session lies between 0 and the duration of
\* its exam in seconds.
C28FrozenWhilePaused ==
    /\ [](\A s \in SessionIds :
            ~sessions[s].is_completed
                => /\ GetRemainingTime(sessions[s]) >= 0
                   /\ GetRemainingTime(sessions[s])
                          <= exams[sessions[s].exam].duration_minutes * SecondsPerMinute
                   /\ sessions[s].is_paused
                          => \A t \in now..(now + ExamTicks + TimerSlack) :
                                 RemainingAt(sessions[s], t)
                                     = GetRemainingTime(sessions[s]))
    /\ [][\A s \in SessionIds :
             (/\ sessions[s].is_paused /\ ~sessions[s].is_completed
              /\ sessions'[s].is_paused /\ ~sessions'[s].is_completed
              /\ exams' = exams)
                 => RemainingAt(sessions'[s], now')
                        = GetRemainingTime(sessions[s])]_vars

\* a session paused for two seconds or more with part of its time left
C28Witness ==
    /\ ~sessions[1].is_completed /\ sessions[1].is_paused
    /\ now >= sessions[1].paused_at + 2 * TicksPerSec
    /\ GetRemainingTime(sessions[1]) > 0
    /\ GetRemainingTime(sessions[1])
           < exams[sessions[1].exam].duration_minutes * SecondsPerMinute

C30ImportedQuestionWellFormed ==
    (response.op = "process_row" /\ response.status = 0)
    => \A q \in QuestionIds :
          questions[q].question_text = importers[1].row.question_text
          => \A correct \in {{c \in ChoicesOf(q) : choices[c].is_correct}} :
                /\ ChoicesOf(q) # {}
                /\ correct # {}
                /\ questions[q].question_type \in {"single", "true_false"}
                      => Cardinality(correct) = 1

====
